---------------------------- MODULE Spec2Model ----------------------------
(***************************************************************************)
(* Fan-out / merge / cache core of katalogbul.                             *)
(*                                                                         *)
(*   src/src/cache_manager.py   CacheManager (table search_cache)          *)
(*   src/src/multi_search.py    MultiSearchCoordinator                     *)
(*   src/src/yandex_client.py   YandexSearchClient (submit / poll)         *)
(*   src/src/search/aggregator.py  normalize_url                           *)
(*                                                                         *)
(* A URL is kept as the parts the code's string operations act on: the     *)
(* site and path (site), the scheme, a leading "www.", a trailing "/" and  *)
(* whether it holds upper-case letters.  str.lower() clears the case flag  *)
(* only; normalize_url clears all four.                                    *)
(*                                                                         *)
(* A time stamp is kept as the text the code stores: the date, the         *)
(* separator between date and time ("T" for datetime.isoformat(), " " for  *)
(* SQLite's datetime('now') and CURRENT_TIMESTAMP) and the time of day.    *)
(* SQLite compares the two TEXT values byte by byte.                       *)
(***************************************************************************)
EXTENDS Integers, Sequences, FiniteSets, TLC

VARIABLES
    search_cache,   \* rows of table search_cache
    now,            \* the wall clock: [day, sec]
    last,           \* the last cache operation called, its arguments and result
    putlog,         \* per cache key: lower-case URLs handed to save_to_cache
                    \* since the key's row was last absent
    call,           \* the search_all_engines call in progress or just returned
    task,           \* per backend: the search_single_engine task of that call
    running,        \* the task that holds the event loop's thread, or NONE
    report,         \* what the last search_all_engines call returned
    ya,             \* YandexSearchClient: the search() call and the kept token
    fn,             \* a call of a pure function: its name, arguments and result
    conn,           \* per database connection: the save_to_cache call it carries out
    pager,          \* the paging loop of a search_pdfs call of the Brave or Serper client
    single,         \* search_single_engine calls on one key that overlap in time
    completed       \* the tasks of the call in the order they ended

\* the state of the parts added beside the coordinator and the clients
xvars == <<conn, pager, single, completed>>

vars == <<search_cache, now, last, putlog, call, task, running, report, ya, fn, xvars>>

cvars == <<call, task, running, report, ya, fn, xvars>>

---------------------------------------------------------------------------
(* Bounds of the model *)

MaxPut == 2      \* longest result list handed to save_to_cache in SpecCache
MaxSec == 1      \* times of day 0..MaxSec
MaxDrift == 1    \* days 0..MaxDrift before and after the expiry window
MaxResults == 3  \* count_per_engine: most results one backend returns
MaxPartial == 1  \* most results collected before a request of an adapter fails
MaxCalls == 2    \* search_all_engines calls in one behaviour

(* Program constants *)

CACHE_EXPIRY_DAYS == 3650

---------------------------------------------------------------------------
(* URLs and results *)

Url(site, https, www, slash, upper) ==
    [site |-> site, https |-> https, www |-> www, slash |-> slash, upper |-> upper]

Plain(site) == Url(site, FALSE, FALSE, FALSE, FALSE)

\* str.lower() of a URL
Lower(u) == [u EXCEPT !.upper = FALSE]

\* One hit: the dict an adapter returns ("url", "source"; title and
\* description play no part in merging).
Result(u, src) == [url |-> u, source |-> src]

SeqsUpTo(S, n) == UNION {[1..k -> S] : k \in 0..n}

Range(s) == {s[i] : i \in 1..Len(s)}

LowerUrls(results) == {Lower(results[i].url) : i \in 1..Len(results)}

---------------------------------------------------------------------------
(* Time stamps as stored text *)

Instant(d, s) == [day |-> d, sec |-> s]

\* datetime.isoformat(): "YYYY-MM-DDTHH:MM:SS"
isoformat(t) == [day |-> t.day, sep |-> "T", sec |-> t.sec]

\* SQLite datetime('now') / CURRENT_TIMESTAMP: "YYYY-MM-DD HH:MM:SS"
sql_datetime(t) == [day |-> t.day, sep |-> " ", sec |-> t.sec]

\* byte value order of the separator characters: " " (0x20) < "T" (0x54)
SepRank(c) == IF c = " " THEN 0 ELSE 1

\* SQLite's comparison of two TEXT values (memcmp)
TextLess(x, y) ==
    \/ x.day < y.day
    \/ /\ x.day = y.day
       /\ \/ SepRank(x.sep) < SepRank(y.sep)
          \/ /\ x.sep = y.sep
             /\ x.sec < y.sec

\* datetime.now() + timedelta(days = n)
PlusDays(t, n) == Instant(t.day + n, t.sec)

\* the instant a stored text denotes, and the order of instants
InstantOf(x) == Instant(x.day, x.sec)
Before(t1, t2) == t1.day < t2.day \/ (t1.day = t2.day /\ t1.sec < t2.sec)

---------------------------------------------------------------------------
(* CacheManager: src/src/cache_manager.py *)

NONE == "<None>"

\* Optional[List[Dict]]
None == [some |-> FALSE, val |-> <<>>]
Some(v) == [some |-> TRUE, val |-> v]

\* page: Optional[int] as <<>> (None) or <<n>>
NoPage == <<>>
Page(n) == <<n>>

Request(engine, query, language, doc_type, page) ==
    [engine |-> engine, query |-> query, language |-> language,
     doc_type |-> doc_type, page |-> page]

\* query.lower().strip() on the queries of the model
LowerStrip(q) ==
    CASE q = "CAT 320"   -> "cat 320"
      [] q = " cat 320 " -> "cat 320"
      [] OTHER           -> q

\* truthiness of an optional string: None and "" are falsy
Truthy(s) == s # NONE /\ s # ""

Part(s) == [text |-> s, num |-> -1]
PagePart(n) == [text |-> "p", num |-> n]      \* f"p{page}"

\* _generate_cache_key: the parts joined by "|" (the MD5 of the joined text
\* is taken to be injective, so the key is the text itself)
generate_cache_key(engine, query, language, doc_type, page) ==
    <<Part(engine), Part(LowerStrip(query))>>
      \o (IF Truthy(language) THEN <<Part(language)>> ELSE <<>>)
      \o (IF Truthy(doc_type) THEN <<Part(doc_type)>> ELSE <<>>)
      \o (IF page # NoPage THEN <<PagePart(page[1])>> ELSE <<>>)

KeyOf(req) ==
    generate_cache_key(req.engine, req.query, req.language, req.doc_type, req.page)

HasRow(rows, key) == \E r \in rows : r.cache_key = key
RowOf(rows, key) == CHOOSE r \in rows : r.cache_key = key

\* the loop of save_to_cache, lines 95-100: the results whose lower-case URL
\* is non-empty and not yet seen, each URL once, in arrival order
RECURSIVE new_unique_results(_, _)
new_unique_results(results, existing_urls) ==
    IF results = <<>> THEN <<>>
    ELSE LET r == Head(results)
             url == Lower(r.url)
         IN IF url.site # "" /\ url \notin existing_urls
            THEN <<r>> \o new_unique_results(Tail(results), existing_urls \cup {url})
            ELSE new_unique_results(Tail(results), existing_urls)

\* the row replaced wholesale by the new list (INSERT OR REPLACE)
MergedRow_replaced(row, results, t) ==
    [row EXCEPT !.results = results,
                !.result_count = Len(results),
                !.updated_at = sql_datetime(t),
                !.expires_at = isoformat(PlusDays(t, CACHE_EXPIRY_DAYS))]

\* UPDATE branch of save_to_cache, lines 89-117
MergedRow(row, results, t) ==
    LET merged_results == row.results \o new_unique_results(results, LowerUrls(row.results))
    IN [row EXCEPT !.results = merged_results,
                   !.result_count = Len(merged_results),
                   !.updated_at = sql_datetime(t),
                   !.expires_at = isoformat(PlusDays(t, CACHE_EXPIRY_DAYS))]

\* INSERT branch of save_to_cache, lines 121-136
InsertedRow(req, results, t) ==
    [cache_key    |-> KeyOf(req),
     engine       |-> req.engine,
     query        |-> req.query,
     language     |-> req.language,
     doc_type     |-> req.doc_type,
     results      |-> results,
     result_count |-> Len(results),
     created_at   |-> sql_datetime(t),
     updated_at   |-> sql_datetime(t),
     expires_at   |-> isoformat(PlusDays(t, CACHE_EXPIRY_DAYS))]

\* the UPDATE without its WHERE clause: every row takes the merged list
save_to_cache_no_where(rows, req, results, t) ==
    LET cache_key == KeyOf(req)
    IN IF HasRow(rows, cache_key)
       THEN LET merged == MergedRow(RowOf(rows, cache_key), results, t)
            IN {[r EXCEPT !.results = merged.results,
                          !.result_count = merged.result_count,
                          !.updated_at = merged.updated_at,
                          !.expires_at = merged.expires_at] : r \in rows}
       ELSE rows \cup {InsertedRow(req, results, t)}

\* save_to_cache: the table after the call
save_to_cache(rows, req, results, t) ==
    LET cache_key == KeyOf(req)
    IN IF HasRow(rows, cache_key)
       THEN LET row == RowOf(rows, cache_key)
            IN (rows \ {row}) \cup {MergedRow(row, results, t)}
       ELSE rows \cup {InsertedRow(req, results, t)}

\* the SELECT matching no row: every read is a miss
get_cached_results_miss(rows, req, t) == None

\* get_cached_results: SELECT results ... WHERE cache_key = ? AND
\* expires_at > datetime('now')
get_cached_results(rows, req, t) ==
    LET cache_key == KeyOf(req)
        hit == {r \in rows : r.cache_key = cache_key
                              /\ TextLess(sql_datetime(t), r.expires_at)}
    IN IF hit # {} THEN Some((CHOOSE r \in hit : TRUE).results) ELSE None

\* every row taken for expired
ExpiredRows_all(rows, t) == rows

\* clear_expired_cache: DELETE ... WHERE expires_at < datetime('now')
ExpiredRows(rows, t) == {r \in rows : TextLess(r.expires_at, sql_datetime(t))}

\* clear_engine_cache: DELETE ... WHERE engine = ?
EngineRows(rows, engine) == {r \in rows : r.engine = engine}

---------------------------------------------------------------------------
(* The cache store on its own: save, get, the three evictions, the clock *)

UA == Plain("a")
UAcase == Url("a", FALSE, FALSE, FALSE, TRUE)
UB == Plain("b")
UC == Plain("c")

ResultLists(urls, src, n) ==
    {[i \in 1..Len(s) |-> Result(s[i], src)] : s \in SeqsUpTo(urls, n)}

Days == {0} \cup {CACHE_EXPIRY_DAYS + d : d \in 0..MaxDrift}
Instants == {Instant(d, s) : d \in Days, s \in 0..MaxSec}

Op(op, engine, ret, count) ==
    [op |-> op, engine |-> engine, ret |-> ret, count |-> count]

\* self.engines of the coordinator (the four searchapi_* entries, which share
\* one client and are not in SEARCH_ENGINES, are left out)
SelfEngines == {"serper", "brave", "yandex"}

\* what an adapter call came to: kind "ok", a failure kind (the adapter caught
\* it and returned what it had), or "raise" (an exception left the adapter)
Outcome(kind, results) == [kind |-> kind, results |-> results]
NoOutcome == Outcome("none", <<>>)

\* the dict search_single_engine returns
Contribution(engine, results, cached, error) ==
    [engine |-> engine, results |-> results, count |-> Len(results),
     cached |-> cached, error |-> error]

\* pc: none (no task), ready (created, not started), io (suspended on an
\* aiohttp request), resumable (the response is there), blocking (inside the
\* synchronous requests / time.sleep calls of the Yandex client), done
TaskRec(pc, out, ret, live) == [pc |-> pc, out |-> out, ret |-> ret, live |-> live]
NoTask(e) == TaskRec("none", NoOutcome, Contribution(e, <<>>, FALSE, NONE), FALSE)

\* available: the keys of self.engines ("yandex" is there only if its client
\* could be constructed)
NoCall == [phase |-> "idle", engines |-> <<>>, use_cache |-> TRUE, n |-> 0,
           available |-> SelfEngines]
NoReport == [engines |-> <<>>, merged_results |-> <<>>, total_results |-> 0]

\* YandexSearchClient: the state of the current search() call (state .. sent,
\* cred: the expiry of the token the call holds in its local variable, req:
\* the last submit or poll request sent), the credential kept in self._token
\* and self._token_expires (token 0: None), the requests made to the IAM
\* endpoint, and the time in seconds
NoRequest == [kind |-> "none", at |-> 0, expires |-> 0]

YState(state, pc, submit, poll, polls, notdone, sent, cred, req, token, expires, iam, calls, clock) ==
    [state |-> state, pc |-> pc, submit |-> submit, poll |-> poll, polls |-> polls,
     notdone |-> notdone, sent |-> sent, cred |-> cred, req |-> req,
     token |-> token, expires |-> expires, iam |-> iam, calls |-> calls,
     clock |-> clock]
NoSearch == YState("IDLE", "none", "none", "none", 0, 0, 0, 0, NoRequest, 0, 0, 0, 0, 0)

\* the sqlite3 connections that can be inside save_to_cache at the same time:
\* every call opens its own (line 78), from any process or thread that shares
\* the database file
Conns == {1, 2}

\* a save_to_cache call on its connection; pc: idle, selected (the SELECT of
\* lines 83-87 has run), done; found and existing: what the SELECT read;
\* expires_at: the value of line 76; ok: the value returned; n: calls so far
ConnRec(pc, req, results, found, existing, expires_at, ok, n) ==
    [pc |-> pc, req |-> req, results |-> results, found |-> found,
     existing |-> existing, expires_at |-> expires_at, ok |-> ok, n |-> n]
IdleConn ==
    ConnRec("idle", Request("brave", "cat 320", "en", NONE, Page(1)), <<>>,
            FALSE, <<>>, isoformat(Instant(0, 0)), FALSE, 0)

\* a search_pdfs call of the Brave or Serper client: count (num), the number
\* of results collected, pos (offset or page), the requests sent, whether a
\* response so far was an error, empty or short of the page size or filled
\* the list up to count (stop), and the requests sent after such a response
PagerRec(adapter, count, pc, collected, pos, requests, stop, extra, ret) ==
    [adapter |-> adapter, count |-> count, pc |-> pc, collected |-> collected,
     pos |-> pos, requests |-> requests, stop |-> stop, extra |-> extra, ret |-> ret]
NoPager == PagerRec(NONE, 0, "idle", 0, 0, 0, FALSE, 0, 0)

\* search_single_engine calls that are in progress at the same time (tasks of
\* one gather for an engines list that names a backend twice, or of two
\* requests served by the same event loop); pc: idle, io (awaiting the
\* adapter), done; entry and began: the rows of the key and the time when the
\* call began; n: calls so far
Singles == {1, 2}

SingleRec(pc, use_cache, entry, began, ret, n) ==
    [pc |-> pc, use_cache |-> use_cache, entry |-> entry, began |-> began,
     ret |-> ret, n |-> n]
NoSingle ==
    SingleRec("idle", TRUE, {}, Instant(0, 0), Contribution("brave", <<>>, FALSE, NONE), 0)

\* the state after construction, the coordinator's engines and the
\* pure-function variable apart
InitOther ==
    /\ search_cache = {}
    /\ now = Instant(0, 0)
    /\ last = Op("init", NONE, None, 0)
    /\ putlog = {}
    /\ task = [e \in SelfEngines |-> NoTask(e)]
    /\ running = NONE
    /\ report = NoReport
    /\ ya = NoSearch
    /\ conn = [c \in Conns |-> IdleConn]
    /\ pager = NoPager
    /\ single = [i \in Singles |-> NoSingle]
    /\ completed = <<>>

InitRest == InitOther /\ call = NoCall

\* no pure function has been called
NoFn == [op |-> "none", done |-> FALSE, arg |-> <<>>, ret |-> <<>>]

\* a call of op with arguments arg, not yet carried out
Called(op, arg) == [op |-> op, done |-> FALSE, arg |-> arg, ret |-> <<>>]

InitCache == InitRest /\ fn = NoFn

CacheSave(req, results) ==
    /\ search_cache' = save_to_cache(search_cache, req, results, now)
    /\ last' = Op("save", req.engine, None, 0)
    /\ putlog' = putlog \cup {<<KeyOf(req), u>> : u \in LowerUrls(results)}
    /\ UNCHANGED <<now, cvars>>

CacheGet(req) ==
    /\ last' = Op("get", req.engine, get_cached_results(search_cache, req, now), 0)
    /\ UNCHANGED <<search_cache, now, putlog, cvars>>

Delete(rows) ==
    /\ search_cache' = search_cache \ rows
    /\ putlog' = {p \in putlog : \A r \in rows : r.cache_key # p[1]}
    /\ UNCHANGED <<now, cvars>>

\* clear_expired_cache
CacheClearExpired ==
    LET rows == ExpiredRows(search_cache, now)
    IN /\ Delete(rows)
       /\ last' = Op("clear_expired", NONE, None, Cardinality(rows))

\* clear_engine_cache
CacheClearEngine(engine) ==
    LET rows == EngineRows(search_cache, engine)
    IN /\ Delete(rows)
       /\ last' = Op("clear_engine", engine, None, Cardinality(rows))

\* clear_all_cache
CacheClearAll ==
    /\ Delete(search_cache)
    /\ last' = Op("clear_all", NONE, None, Cardinality(search_cache))

Tick(t) ==
    /\ Before(now, t)
    /\ now' = t
    /\ last' = Op("tick", NONE, None, 0)
    /\ UNCHANGED <<search_cache, putlog, cvars>>

(* SpecCache: one backend's key with every short result list over URLs that
   differ in case, a second backend's key beside it, at two instants *)

CacheEngines == {"brave", "yandex"}

CacheReq(e) == Request(e, "cat 320", "en", NONE, Page(1))

CacheReqs == {CacheReq(e) : e \in CacheEngines}

CacheUrls(e) == IF e = "brave" THEN {UA, UAcase, UB} ELSE {UC}

PutLists(req) == ResultLists(CacheUrls(req.engine), req.engine, MaxPut)

NextCache ==
    \/ \E req \in CacheReqs : \E results \in PutLists(req) : CacheSave(req, results)
    \/ \E req \in CacheReqs : CacheGet(req)
    \/ CacheClearExpired
    \/ \E e \in CacheEngines : CacheClearEngine(e)
    \/ CacheClearAll
    \/ Tick(Instant(0, 1))

SpecCache == InitCache /\ [][NextCache]_vars

(* SpecTtl: two backends' keys with short result lists, over the whole
   expiry window *)

MaxTtlPut == 1

TtlUrls == {UA, UB}

TtlLists(req) == ResultLists(TtlUrls, req.engine, MaxTtlPut)

NextTtl ==
    \/ \E req \in CacheReqs : \E results \in TtlLists(req) : CacheSave(req, results)
    \/ \E req \in CacheReqs : CacheGet(req)
    \/ CacheClearExpired
    \/ \E e \in CacheEngines : CacheClearEngine(e)
    \/ CacheClearAll
    \/ \E t \in Instants : Tick(t)

SpecTtl == InitCache /\ [][NextTtl]_vars

(* SpecConc: save_to_cache calls of two connections on one key.  The SELECT
   of lines 83-87 runs outside any transaction (the sqlite3 module opens one
   only before the UPDATE or INSERT), so the other connection can commit
   between a call's SELECT and its write. *)

MaxConnSaves == 2

ConcUrls == {UA, UB, UC}

ConcLists == {r \in ResultLists(ConcUrls, "brave", 1) : r # <<>>}

\* lines 75-87: the key, expires_at, and the row read by the SELECT
SaveSelect(c, req, results) ==
    /\ conn[c].pc \in {"idle", "done"}
    /\ conn[c].n < MaxConnSaves
    /\ LET cache_key == KeyOf(req)
           found == HasRow(search_cache, cache_key)
       IN conn' = [conn EXCEPT ![c] =
                     ConnRec("selected", req, results, found,
                             IF found THEN RowOf(search_cache, cache_key).results ELSE <<>>,
                             isoformat(PlusDays(now, CACHE_EXPIRY_DAYS)),
                             FALSE, conn[c].n + 1)]
    /\ UNCHANGED <<search_cache, now, last, putlog, call, task, running, report, ya, fn, pager, single, completed>>

\* lines 89-117: UPDATE ... WHERE cache_key = ? with the list merged from the
\* row the SELECT read
UpdatedRows(rows, w) ==
    LET merged_results == w.existing \o new_unique_results(w.results, LowerUrls(w.existing))
    IN {IF r.cache_key = KeyOf(w.req)
        THEN [r EXCEPT !.results = merged_results,
                       !.result_count = Len(merged_results),
                       !.updated_at = sql_datetime(now),
                       !.expires_at = w.expires_at]
        ELSE r : r \in rows}

\* lines 121-136: INSERT; cache_key is UNIQUE, so the statement raises if the
\* row is there by now
CanInsert(rows, w) == ~HasRow(rows, KeyOf(w.req))
InsertedRows(rows, w) ==
    rows \cup {[InsertedRow(w.req, w.results, now) EXCEPT !.expires_at = w.expires_at]}

\* lines 89-145: the write and the commit, or the except branch (return False)
SaveCommit(c) ==
    LET w == conn[c]
    IN /\ w.pc = "selected"
       /\ IF w.found
          THEN /\ search_cache' = UpdatedRows(search_cache, w)
               /\ conn' = [conn EXCEPT ![c].pc = "done", ![c].ok = TRUE]
          ELSE IF CanInsert(search_cache, w)
          THEN /\ search_cache' = InsertedRows(search_cache, w)
               /\ conn' = [conn EXCEPT ![c].pc = "done", ![c].ok = TRUE]
          ELSE /\ UNCHANGED search_cache
               /\ conn' = [conn EXCEPT ![c].pc = "done", ![c].ok = FALSE]
       /\ last' = Op("save", w.req.engine, None, 0)
       /\ putlog' = putlog \cup {<<KeyOf(w.req), u>> : u \in LowerUrls(w.results)}
       /\ UNCHANGED <<now, call, task, running, report, ya, fn, pager, single, completed>>

NextConc ==
    \/ \E c \in Conns : \E results \in ConcLists : SaveSelect(c, CacheReq("brave"), results)
    \/ \E c \in Conns : SaveCommit(c)
    \/ Tick(Instant(0, 1))

SpecConc == InitCache /\ [][NextConc]_vars

---------------------------------------------------------------------------
(* MultiSearchCoordinator: src/src/multi_search.py *)

\* main.py constructs the coordinator with use_cache=True
self_use_cache == TRUE

\* SEARCH_ENGINES, the enabled names in the order of the dict
EnabledEngines == <<"serper", "brave", "yandex">>

\* The Yandex client calls requests.post / requests.get / time.sleep inside
\* its coroutine: it never yields to the event loop.  The other clients
\* await aiohttp.
Blocking(e) == e = "yandex"

UAhttps == Url("a", TRUE, FALSE, FALSE, FALSE)

\* what each backend holds for the query, in rank order
BackendIndex(e) ==
    CASE e = "brave"  -> <<UA, UB, UC>>
      [] e = "yandex" -> <<UAcase, UB>>
      [] e = "serper" -> <<UAhttps>>

\* the lists search_pdfs of backend e can return: a run of at most
\* MaxResults consecutive hits of its index (results[:count]), or nothing
Found(e) ==
    {<<>>} \cup
    {[k \in 1..(j - i + 1) |-> Result(BackendIndex(e)[i + k - 1], e)] :
        <<i, j>> \in {p \in (1..Len(BackendIndex(e))) \X (1..Len(BackendIndex(e))) :
                        p[1] <= p[2] /\ p[2] - p[1] < MaxResults}}

\* what the paging loop had collected when a request failed: the first hits
PartialFound(e) ==
    {r \in Found(e) : Len(r) <= MaxPartial
                        /\ \A k \in 1..Len(r) : r[k].url = BackendIndex(e)[k]}

\* failures an adapter catches itself
FailureKinds(e) ==
    IF e = "yandex" THEN {"auth_error", "timed_out"}
    ELSE {"http_error", "transport_error"}

Outcomes(e) ==
    {Outcome("ok", r) : r \in Found(e)}
      \cup {Outcome(k, r) : k \in FailureKinds(e), r \in PartialFound(e)}
      \cup {Outcome("raise", <<>>)}

Failed(out) == out.kind \notin {"none", "ok", "raise"}

\* the lookup left out: every task goes to its backend
CacheLookup_skipped(e, use_cache) == None

\* lines 79-86: the cache is read only if both flags are set
CacheLookup(e, use_cache) ==
    IF self_use_cache /\ use_cache
    THEN get_cached_results(search_cache, CacheReq(e), now)
    ELSE None

\* the exception of the adapter dropped instead of recorded
SingleEngineResult_silent(e, out) == Contribution(e, out.results, FALSE, NONE)

\* lines 97-124 and 137-144: results and error after the adapter call
SingleEngineResult(e, out) ==
    IF out.kind = "raise"
    THEN Contribution(e, <<>>, FALSE, "exception")
    ELSE Contribution(e, out.results, FALSE, NONE)

\* the save left out
ShouldSave_never(ret) == FALSE

\* line 127: if self.use_cache and results and not error
ShouldSave(ret) == self_use_cache /\ ret.results # <<>> /\ ret.error = NONE

\* the tasks of the call, in the order gather() got them
CallTasks == SelectSeq(call.engines, LAMBDA e : e \in call.available)

\* search_all_engines, lines 182-204: the coroutines are created and handed
\* to asyncio.gather
SearchAll(engines, use_cache) ==
    /\ call.phase \in {"idle", "returned"}
    /\ call.n < MaxCalls
    /\ LET names == IF engines = <<>> THEN EnabledEngines ELSE engines
       IN /\ call' = [phase |-> "gathering", engines |-> names,
                      use_cache |-> use_cache, n |-> call.n + 1,
                      available |-> call.available]
          /\ task' = [e \in SelfEngines |->
                        IF e \in Range(names) /\ e \in call.available
                        THEN TaskRec("ready", NoOutcome, NoTask(e).ret, FALSE)
                        ELSE NoTask(e)]
    /\ running' = NONE
    /\ report' = NoReport
    /\ completed' = <<>>
    /\ UNCHANGED <<search_cache, now, last, putlog, ya, fn, conn, pager, single>>

\* the event loop starts ready tasks in the order gather() created them
FirstReady(e) ==
    /\ task[e].pc = "ready"
    /\ \A i \in 1..Len(CallTasks) : \A j \in 1..Len(CallTasks) :
          (CallTasks[j] = e /\ i < j) => task[CallTasks[i]].pc # "ready"

\* a finished search_single_engine: lines 126-144
Finish(e, out) ==
    LET ret == SingleEngineResult(e, out)
    IN /\ task' = [task EXCEPT ![e] = TaskRec("done", out, ret, TRUE)]
       /\ IF ShouldSave(ret)
          THEN /\ search_cache' = save_to_cache(search_cache, CacheReq(e), ret.results, now)
               /\ putlog' = putlog \cup {<<KeyOf(CacheReq(e)), u>> : u \in LowerUrls(ret.results)}
          ELSE UNCHANGED <<search_cache, putlog>>

\* search_single_engine up to its first suspension: lines 78-121
StartTask(e) ==
    /\ call.phase = "gathering"
    /\ running = NONE
    /\ FirstReady(e)
    /\ LET cached_results == CacheLookup(e, call.use_cache)
       IN IF cached_results # None
          THEN /\ task' = [task EXCEPT ![e] =
                             TaskRec("done", NoOutcome,
                                     Contribution(e, cached_results.val, TRUE, NONE), FALSE)]
               /\ completed' = Append(completed, e)
               /\ UNCHANGED running
          ELSE IF Blocking(e)
          THEN /\ task' = [task EXCEPT ![e].pc = "blocking", ![e].live = TRUE]
               /\ running' = e
               /\ UNCHANGED completed
          ELSE /\ task' = [task EXCEPT ![e].pc = "io", ![e].live = TRUE]
               /\ UNCHANGED <<running, completed>>
    /\ UNCHANGED <<search_cache, now, last, putlog, call, report, ya, fn, conn, pager, single>>

\* the backend answers an aiohttp request (or the request fails)
NetRespond(e, out) ==
    /\ task[e].pc = "io"
    /\ task' = [task EXCEPT ![e].pc = "resumable", ![e].out = out]
    /\ UNCHANGED <<search_cache, now, last, putlog, call, running, report, ya, fn, xvars>>

\* the event loop resumes a task whose response is there
CanResume(e) == running = NONE /\ task[e].pc = "resumable"

ResumeTask(e) ==
    /\ CanResume(e)
    /\ Finish(e, task[e].out)
    /\ completed' = Append(completed, e)
    /\ UNCHANGED <<now, last, call, running, report, ya, fn, conn, pager, single>>

\* the Yandex client's search_pdfs returns; the thread was held throughout
BlockingReturn(e, out) ==
    /\ task[e].pc = "blocking"
    /\ running = e
    /\ Finish(e, out)
    /\ running' = NONE
    /\ completed' = Append(completed, e)
    /\ UNCHANGED <<now, last, call, report, ya, fn, conn, pager, single>>

\* item["engine"] = engine_name, lines 219-221
Tagged(ret) ==
    [i \in 1..Len(ret.results) |->
        [url |-> ret.results[i].url, source |-> ret.results[i].source,
         engine |-> ret.engine]]

\* lines 207-221: every gathered result, in gather order
RECURSIVE all_results(_)
all_results(names) ==
    IF names = <<>> THEN <<>>
    ELSE Tagged(task[Head(names)].ret) \o all_results(Tail(names))

\* lines 223-230: keep the first item of each lower-case URL
RECURSIVE merge_unique(_, _)
merge_unique(items, seen_urls) ==
    IF items = <<>> THEN <<>>
    ELSE LET url == Lower(Head(items).url)
         IN IF url \notin seen_urls
            THEN <<Head(items)>> \o merge_unique(Tail(items), seen_urls \cup {url})
            ELSE merge_unique(Tail(items), seen_urls)

\* the results taken in the order the tasks ended, as asyncio.as_completed
\* would hand them over
Gathered_as_completed == SelectSeq(completed, LAMBDA e : task[e].pc = "done")

\* lines 210-213: a task that ended with an exception is skipped
Gathered == SelectSeq(CallTasks, LAMBDA e : task[e].pc = "done")

\* gather() is complete; lines 206-242 build the report
Return ==
    /\ call.phase = "gathering"
    /\ running = NONE
    /\ \A e \in Range(CallTasks) : task[e].pc \in {"done", "raised"}
    /\ LET merged_results == merge_unique(all_results(Gathered), {})
       IN report' = [engines |-> [i \in 1..Len(Gathered) |-> task[Gathered[i]].ret],
                     merged_results |-> merged_results,
                     total_results |-> Len(merged_results)]
    /\ call' = [call EXCEPT !.phase = "returned"]
    /\ UNCHANGED <<search_cache, now, last, putlog, task, running, ya, fn, xvars>>

\* time passes between two calls
Wait(t) ==
    /\ call.phase \in {"idle", "returned"}
    /\ Before(now, t)
    /\ now' = t
    /\ call' = [call EXCEPT !.phase = "idle"]
    /\ UNCHANGED <<search_cache, last, putlog, task, running, report, ya, fn, xvars>>

\* the engines arguments of the calls: two named backends
EngineLists == {<<"serper", "brave">>, <<"brave", "yandex">>, <<"yandex", "brave">>}

\* __init__, lines 29-46: the Yandex client is left out of self.engines if it
\* could not be constructed
Init ==
    /\ InitOther
    /\ call \in {[NoCall EXCEPT !.available = a] : a \in {SelfEngines, SelfEngines \ {"yandex"}}}
    /\ fn = NoFn

Next ==
    \/ \E engines \in EngineLists : \E use_cache \in BOOLEAN : SearchAll(engines, use_cache)
    \/ \E e \in SelfEngines : StartTask(e)
    \/ \E e \in SelfEngines : \E out \in Outcomes(e) : NetRespond(e, out)
    \/ \E e \in SelfEngines : ResumeTask(e)
    \/ \E e \in SelfEngines : \E out \in Outcomes(e) : BlockingReturn(e, out)
    \/ Return
    \/ Wait(Instant(CACHE_EXPIRY_DAYS + MaxDrift, 0))

Spec == Init /\ [][Next]_vars

(* SpecFault: the same coordinator with a database that can fail.  sqlite3
   raises from connect() (cache_manager.py:49 and 78, outside any try) or from
   execute() (inside try/finally in get_cached_results, inside try/except in
   save_to_cache). *)

\* where a cache call can fail
DbFaults == {"connect", "execute"}

\* lines 79-86: get_cached_results raises; the call is outside the try of
\* lines 101-124, so the exception leaves search_single_engine
StartTaskReadFails(e, fault) ==
    /\ call.phase = "gathering"
    /\ running = NONE
    /\ FirstReady(e)
    /\ self_use_cache /\ call.use_cache
    /\ task' = [task EXCEPT ![e].pc = "raised"]
    /\ completed' = Append(completed, e)
    /\ UNCHANGED <<search_cache, now, last, putlog, call, running, report, ya, fn, conn, pager, single>>

\* lines 126-144 with a failing save_to_cache: an error of execute() or
\* commit() is caught at lines 141-143 (return False, which line 128 ignores);
\* an error of connect() at line 78 is outside the try and leaves
\* search_single_engine
ResumeTaskSaveFails(e, fault) ==
    LET ret == SingleEngineResult(e, task[e].out)
    IN /\ CanResume(e)
       /\ ShouldSave(ret)
       /\ task' = [task EXCEPT ![e] =
                     IF fault = "execute"
                     THEN TaskRec("done", task[e].out, ret, TRUE)
                     ELSE TaskRec("raised", task[e].out, NoTask(e).ret, TRUE)]
       /\ completed' = Append(completed, e)
       /\ UNCHANGED <<search_cache, now, last, putlog, call, running, report, ya, fn, conn, pager, single>>

FaultEngines == <<"serper", "brave">>

NextFault ==
    \/ \E use_cache \in BOOLEAN : SearchAll(FaultEngines, use_cache)
    \/ \E e \in SelfEngines : StartTask(e)
    \/ \E e \in SelfEngines : \E fault \in DbFaults : StartTaskReadFails(e, fault)
    \/ \E e \in SelfEngines : \E out \in Outcomes(e) : NetRespond(e, out)
    \/ \E e \in SelfEngines : ResumeTask(e)
    \/ \E e \in SelfEngines : \E fault \in DbFaults : ResumeTaskSaveFails(e, fault)
    \/ Return

SpecFault == InitCache /\ [][NextFault]_vars

(* SpecOverlap: search_single_engine calls for the key of one backend that
   overlap: each runs from its cache read to its first await without a break,
   and from the adapter's return to its own return without a break. *)

MaxSingleCalls == 2

OverlapEngine == "brave"

\* lines 78-95, up to the await of the adapter call
SingleStart(i, use_cache) ==
    /\ single[i].pc \in {"idle", "done"}
    /\ single[i].n < MaxSingleCalls
    /\ LET cached_results == CacheLookup(OverlapEngine, use_cache)
           entry == {r \in search_cache : r.cache_key = KeyOf(CacheReq(OverlapEngine))}
       IN single' = [single EXCEPT ![i] =
                       IF cached_results # None
                       THEN SingleRec("done", use_cache, entry, now,
                                      Contribution(OverlapEngine, cached_results.val, TRUE, NONE),
                                      single[i].n + 1)
                       ELSE SingleRec("io", use_cache, entry, now,
                                      Contribution(OverlapEngine, <<>>, FALSE, NONE),
                                      single[i].n + 1)]
    /\ UNCHANGED <<search_cache, now, last, putlog, call, task, running, report, ya, fn, conn, pager, completed>>

\* lines 97-144, from the adapter's return
SingleFinish(i, out) ==
    LET ret == SingleEngineResult(OverlapEngine, out)
    IN /\ single[i].pc = "io"
       /\ single' = [single EXCEPT ![i].pc = "done", ![i].ret = ret]
       /\ IF ShouldSave(ret)
          THEN /\ search_cache' = save_to_cache(search_cache, CacheReq(OverlapEngine),
                                                ret.results, now)
               /\ putlog' = putlog \cup {<<KeyOf(CacheReq(OverlapEngine)), u>> :
                                            u \in LowerUrls(ret.results)}
          ELSE UNCHANGED <<search_cache, putlog>>
       /\ UNCHANGED <<now, last, call, task, running, report, ya, fn, conn, pager, completed>>

\* the adapter returns the first hits of the backend's index, or raises
OverlapOutcomes ==
    {out \in Outcomes(OverlapEngine) :
        /\ out.kind \in {"ok", "raise"}
        /\ \A k \in 1..Len(out.results) : out.results[k].url = BackendIndex(OverlapEngine)[k]}

NextOverlap ==
    \/ \E i \in Singles : \E use_cache \in BOOLEAN : SingleStart(i, use_cache)
    \/ \E i \in Singles : \E out \in OverlapOutcomes : SingleFinish(i, out)
    \/ Tick(Instant(CACHE_EXPIRY_DAYS + MaxDrift, 0))

SpecOverlap == InitCache /\ [][NextOverlap]_vars

(* SpecDeadline: one call pattern with the progress the code guarantees.  The
   event loop runs every step that is ready; an aiohttp request ends with a
   response or an error (the session's total timeout).  The Yandex client's
   token request (yandex_client.py:51-54) carries no timeout: nothing bounds
   the time its search_pdfs holds the thread. *)

DeadlineEngines == <<"brave", "yandex">>

LoopStep ==
    \/ \E e \in SelfEngines : StartTask(e)
    \/ \E e \in SelfEngines : ResumeTask(e)
    \/ Return

AiohttpStep == \E e \in SelfEngines : \E out \in Outcomes(e) : NetRespond(e, out)

NextDeadline ==
    \/ \E use_cache \in BOOLEAN : SearchAll(DeadlineEngines, use_cache)
    \/ \E e \in SelfEngines : StartTask(e)
    \/ \E e \in SelfEngines : \E out \in Outcomes(e) : NetRespond(e, out)
    \/ \E e \in SelfEngines : ResumeTask(e)
    \/ \E e \in SelfEngines : \E out \in Outcomes(e) : BlockingReturn(e, out)
    \/ Return

SpecDeadline ==
    InitCache /\ [][NextDeadline]_vars /\ WF_vars(LoopStep) /\ WF_vars(AiohttpStep)

---------------------------------------------------------------------------
(* YandexSearchClient.search: src/src/yandex_client.py *)

MaxYCalls == 2

\* for _ in range(30)
PollCeiling == 30

\* time.sleep(1)
PollInterval == 1

\* timeout=30 of the submit and poll requests
RequestTimeout == 30

\* now < self._token_expires - 60
RenewMargin == 60

\* self._token_expires = now + 3600
TokenLifetime == 3600

Terminal == {"DONE", "FAILED", "TIMED_OUT"}

\* what the submit request came to: HTTP 200 with an operation id, HTTP 200
\* without one, another status, or an exception
SubmitResponses == {"200_id", "200_noid", "non200", "error"}

\* what a poll came to: a body whose done is not set, a body with done set,
\* or an exception (transport error, body that is not JSON)
PollResponses == {"not_done", "done", "error"}

\* lines 99-107: only HTTP 200 with an operation id goes on to the poll loop
AfterSubmit(resp) == IF resp = "200_id" THEN "PENDING" ELSE "FAILED"

\* an exception of the poll request taken for a pending operation
AfterPoll_error_ignored(resp) == IF resp = "done" THEN "DONE" ELSE "PENDING"

\* lines 110-121, 124-126: the loop goes on unless done is set or the request
\* raised
AfterPoll(resp) ==
    CASE resp = "done"     -> "DONE"
      [] resp = "error"    -> "FAILED"
      [] resp = "not_done" -> "PENDING"

ovars == <<search_cache, now, last, putlog, call, task, running, report, fn, xvars>>

\* the moments at which search() is called, as seconds after the expiry of
\* the kept token (after the end of the last call if no token is kept)
StartOffsets == {-61, -60, 1}

StartTimes ==
    IF ya.token = 0 THEN {ya.clock}
    ELSE {t \in {ya.expires + o : o \in StartOffsets} : t >= ya.clock}

\* the seconds a request takes: none, or the whole timeout
Latencies == {0, RequestTimeout}

\* every call asks for a new token
TokenReusable_never(token, expires, t) == FALSE

\* line 34: if self._token and now < self._token_expires - 60
TokenReusable(token, expires, t) == token # 0 /\ t < expires - RenewMargin

\* search() is called at time t
YSearch(t) ==
    /\ ya.state \in Terminal \cup {"IDLE"}
    /\ ya.calls < MaxYCalls
    /\ t \in StartTimes
    /\ ya' = YState("SUBMITTING", "token", "none", "none", 0, 0, 0, 0, NoRequest,
                    ya.token, ya.expires, ya.iam, ya.calls + 1, t)
    /\ UNCHANGED ovars

\* _get_iam_token, lines 31-58: the kept token is returned while it is more
\* than 60 seconds from its expiry; otherwise an assertion is signed and
\* exchanged, and the new token expires 3600 seconds after the now of line 33
YGetToken(resp, d) ==
    /\ ya.state = "SUBMITTING" /\ ya.pc = "token"
    /\ IF TokenReusable(ya.token, ya.expires, ya.clock)
       THEN /\ resp = "ok" /\ d = 0
            /\ ya' = [ya EXCEPT !.pc = "post", !.cred = ya.expires]
       ELSE IF resp = "ok"
       THEN ya' = [ya EXCEPT !.pc = "post", !.token = ya.calls,
                             !.expires = ya.clock + TokenLifetime,
                             !.cred = ya.clock + TokenLifetime,
                             !.iam = @ + 1, !.sent = @ + 1, !.clock = @ + d]
       ELSE ya' = [ya EXCEPT !.state = "FAILED", !.pc = "none",
                             !.iam = @ + 1, !.sent = @ + 1, !.clock = @ + d]
    /\ UNCHANGED ovars

\* the submit request, lines 75-107, answered after d seconds
YSubmit(resp, d) ==
    /\ ya.state = "SUBMITTING" /\ ya.pc = "post"
    /\ ya' = [ya EXCEPT !.state = AfterSubmit(resp), !.pc = "none",
                        !.submit = resp, !.sent = @ + 1,
                        !.req = [kind |-> "submit", at |-> ya.clock, expires |-> ya.cred],
                        !.clock = @ + d]
    /\ UNCHANGED ovars

\* one round of the loop: sleep, poll, look at done; lines 109-121
YPoll(resp, d) ==
    /\ ya.state = "PENDING"
    /\ ya.polls < PollCeiling
    /\ ya' = [ya EXCEPT !.state = AfterPoll(resp), !.poll = resp,
                        !.polls = @ + 1, !.sent = @ + 1,
                        !.notdone = IF resp = "not_done" THEN @ + 1 ELSE @,
                        !.req = [kind |-> "poll", at |-> ya.clock + PollInterval,
                                 expires |-> ya.cred],
                        !.clock = @ + PollInterval + d]
    /\ UNCHANGED ovars

\* the loop is exhausted: return [] of line 124
YExhausted ==
    /\ ya.state = "PENDING"
    /\ ya.polls = PollCeiling
    /\ ya' = [ya EXCEPT !.state = "TIMED_OUT"]
    /\ UNCHANGED ovars

\* the steps of a call once the token is there
YRun ==
    \/ \E resp \in SubmitResponses : \E d \in Latencies : YSubmit(resp, d)
    \/ \E resp \in PollResponses : \E d \in Latencies : YPoll(resp, d)
    \/ YExhausted

NextYandex ==
    \/ \E t \in StartTimes : YSearch(t)
    \/ \E resp \in {"ok", "error"} : \E d \in Latencies : YGetToken(resp, d)
    \/ \E resp \in SubmitResponses : \E d \in Latencies : YSubmit(resp, d)
    \/ \E resp \in PollResponses : \E d \in Latencies : YPoll(resp, d)
    \/ YExhausted

\* the submit and poll requests carry timeout=30 and the sleep is one second:
\* each of these steps comes to an end
SpecYandex == InitCache /\ [][NextYandex]_vars /\ WF_vars(YRun)

---------------------------------------------------------------------------
(* MultiEngineAggregator.search_all_engines: src/src/search/aggregator.py *)

MaxAggLen == 2

\* normalize_url of src/src/search/aggregator.py: protocol, leading www.,
\* trailing slash and letter case are removed
normalize_url(u) == Url(u.site, FALSE, FALSE, FALSE, FALSE)

\* limit of the merged list
MAX_TOTAL_RESULTS == 100

\* a URL written with percent-encoded characters: the same parts, marked
Encoded(u) == [site |-> u.site, https |-> u.https, www |-> u.www,
               slash |-> u.slash, upper |-> u.upper, enc |-> TRUE]
IsEncoded(u) == "enc" \in DOMAIN u

\* urllib.parse.unquote
unquote(u) == Url(u.site, u.https, u.www, u.slash, u.upper)

\* url_hash: the md5 of the normalized URL
url_hash(u) == [md5 |-> normalize_url(unquote(u))]

\* EXCLUDED_DOMAINS and PREMIUM_DOMAINS of src/data/domains.py, as sites
ExcludedSites == {"x"}
PremiumSites == {"b"}

\* domain in url.lower(): the text of the URL as it came, not decoded
is_excluded_domain(u) == u.site \in ExcludedSites /\ ~IsEncoded(u)
is_premium_domain(u) == u.site \in PremiumSites /\ ~IsEncoded(u)

\* a hit as a search client returns it
Hit(u, title, src) == [url |-> u, title |-> title, source |-> src]

\* a hit as the aggregator appends it: lines 172-175
Kept(hit, engine_name) ==
    [url |-> hit.url, title |-> hit.title, source |-> engine_name,
     is_premium |-> is_premium_domain(hit.url)]

\* what gather() holds for an engine: the list of its hits, or the exception
\* its task ended with
Got(hits) == [exc |-> FALSE, hits |-> hits]
EXC == [exc |-> TRUE, hits |-> <<>>]

\* a later hit of a URL replaces the one kept before
RECURSIVE merge_hits_last_wins(_, _, _, _)
merge_hits_last_wins(results, engine_name, all, seen_urls) ==
    IF results = <<>> THEN [all |-> all, seen_urls |-> seen_urls]
    ELSE LET result == Head(results)
             url_key == url_hash(result.url)
             rest == SelectSeq(all, LAMBDA r : url_hash(r.url) # url_key)
         IN IF is_excluded_domain(result.url)
            THEN merge_hits_last_wins(Tail(results), engine_name, all, seen_urls \cup {url_key})
            ELSE merge_hits_last_wins(Tail(results), engine_name,
                                      Append(rest, Kept(result, engine_name)),
                                      seen_urls \cup {url_key})

\* lines 158-175: the hits of one engine
RECURSIVE merge_hits(_, _, _, _)
merge_hits(results, engine_name, all, seen_urls) ==
    IF results = <<>> THEN [all |-> all, seen_urls |-> seen_urls]
    ELSE LET result == Head(results)
             url_key == url_hash(result.url)
         IN IF url_key \in seen_urls
            THEN merge_hits(Tail(results), engine_name, all, seen_urls)
            ELSE IF is_excluded_domain(result.url)
            THEN merge_hits(Tail(results), engine_name, all, seen_urls \cup {url_key})
            ELSE merge_hits(Tail(results), engine_name,
                            Append(all, Kept(result, engine_name)),
                            seen_urls \cup {url_key})

\* lines 150-175: the engines in the order of engine_names
RECURSIVE merge_engines(_, _, _, _)
merge_engines(engine_names, results_per_engine, all, seen_urls) ==
    IF engine_names = <<>> THEN all
    ELSE LET results == results_per_engine[Head(engine_names)]
         IN IF results.exc
            THEN merge_engines(Tail(engine_names), results_per_engine, all, seen_urls)
            ELSE LET m == merge_hits(results.hits, Head(engine_names), all, seen_urls)
                 IN merge_engines(Tail(engine_names), results_per_engine, m.all, m.seen_urls)

\* lines 150-156: the entry of each gathered engine
AggEntry(results) ==
    IF results.exc THEN [count |-> 0, error |-> "exception"]
    ELSE [count |-> Len(results.hits), error |-> NONE]

\* lines 124-189; clients: the engines whose client was constructed
agg_search_all_engines(engines, clients, results_per_engine) ==
    LET engine_names == SelectSeq(engines, LAMBDA e : e \in clients)
        merged == merge_engines(engine_names, results_per_engine, <<>>, {})
        cut == SubSeq(merged, 1,
                      IF Len(merged) < MAX_TOTAL_RESULTS
                      THEN Len(merged) ELSE MAX_TOTAL_RESULTS)
    IN [merged |-> merged,
        results |-> cut,
        engines |-> [e \in Range(engine_names) |-> AggEntry(results_per_engine[e])],
        total |-> Len(cut)]

AggEngines == <<"google", "brave", "yandex">>

UAall == Url("a", TRUE, TRUE, TRUE, TRUE)
UX == Plain("x")

AggUrls == {UA, UAall, Encoded(UA), UB, UX}

AggTitle(e) == CASE e = "google" -> "t1" [] e = "brave" -> "t2" [] e = "yandex" -> "t3"

AggHits(e) == {Hit(u, AggTitle(e), e) : u \in AggUrls}

\* what the gathered task of an engine can be
AggLists(e) ==
    IF e = "yandex"
    THEN {EXC, Got(<<>>)} \cup {Got(<<h>>) : h \in AggHits(e)}
    ELSE {Got(l) : l \in SeqsUpTo(AggHits(e), MaxAggLen)}
           \cup (IF e = "brave" THEN {EXC} ELSE {})

AggInputs ==
    {[engines |-> AggEngines, clients |-> c,
      results |-> [google |-> g, brave |-> b, yandex |-> y]] :
        c \in {{"google", "brave", "yandex"}, {"google", "brave"}},
        g \in AggLists("google"), b \in AggLists("brave"), y \in AggLists("yandex")}

InitAgg ==
    /\ InitRest
    /\ fn \in {Called("search_all_engines", a) : a \in AggInputs}

AggSearchAll ==
    /\ fn.op = "search_all_engines" /\ ~fn.done
    /\ fn' = [fn EXCEPT !.done = TRUE,
                        !.ret = agg_search_all_engines(fn.arg.engines, fn.arg.clients,
                                                       fn.arg.results)]
    /\ UNCHANGED <<search_cache, now, last, putlog, call, task, running, report, ya, xvars>>

NextAgg == AggSearchAll

SpecAgg == InitAgg /\ [][NextAgg]_vars

---------------------------------------------------------------------------
(* Ranking of multi_engine_search: src/api/main.py, lines 864-888 *)

MaxRank == 3
MaxSize == 2

\* sizes.get(url) when the size could not be probed
NoSize == -1

\* an entry of all_merged_results
Item(brand_match, language, file_size) ==
    [brand_match |-> brand_match, language |-> language, file_size |-> file_size]

\* list.sort: the place of element i in the sorted list; elements with equal
\* keys keep their order, also with reverse=True
Place(keys, i, reverse) ==
    1 + Cardinality({j \in 1..Len(keys) :
                        \/ (IF reverse THEN keys[j] > keys[i] ELSE keys[j] < keys[i])
                        \/ (keys[j] = keys[i] /\ j < i)})

list_sort(seq, keys, reverse) ==
    [p \in 1..Len(seq) |-> seq[CHOOSE i \in 1..Len(seq) : Place(keys, i, reverse) = p]]

\* line 865: (0 if x['brand_match'] else 1, 0 if x['language'] == 'en' else 1)
BrandLanguageKey(x) ==
    2 * (IF x.brand_match THEN 0 ELSE 1) + (IF x.language = "en" THEN 0 ELSE 1)

\* line 880: x.get('file_size') or 0
SizeKey(x) == IF x.file_size = NoSize THEN 0 ELSE x.file_size

\* filter_by_size reads size_mb, which no entry has: with include_unknown
\* every entry is kept, whatever the filter
filter_by_size(results, size_filter) == results

\* lines 864-888: sort by brand and language, probe the sizes, sort by size,
\* filter, cut to 100
rank_results(all_merged_results, size_filter) ==
    LET by_brand == list_sort(all_merged_results,
                              [i \in 1..Len(all_merged_results) |->
                                  BrandLanguageKey(all_merged_results[i])], FALSE)
        by_size == list_sort(by_brand,
                             [i \in 1..Len(by_brand) |-> SizeKey(by_brand[i])], TRUE)
        filtered == filter_by_size(by_size, size_filter)
    IN SubSeq(filtered, 1, IF Len(filtered) < 100 THEN Len(filtered) ELSE 100)

RankItems ==
    {Item(b, l, z) : b \in BOOLEAN, l \in {"en", "tr"}, z \in {NoSize} \cup 0..MaxSize}

InitRank ==
    /\ InitRest
    /\ fn \in {Called("rank", [results |-> r, size_filter |-> f]) :
                 r \in SeqsUpTo(RankItems, MaxRank), f \in {"all", "5mb+"}}

Rank ==
    /\ fn.op = "rank" /\ ~fn.done
    /\ fn' = [fn EXCEPT !.done = TRUE,
                        !.ret = rank_results(fn.arg.results, fn.arg.size_filter)]
    /\ UNCHANGED <<search_cache, now, last, putlog, call, task, running, report, ya, xvars>>

NextRank == Rank

SpecRank == InitRank /\ [][NextRank]_vars

---------------------------------------------------------------------------
(* CacheManager._generate_cache_key on pairs of requests *)

MaxPage == 2

KeyRequests ==
    {Request(e, q, l, d, pg) :
        e \in {"brave", "yandex"},
        q \in {"cat 320", "CAT 320", "d5"},
        l \in {NONE, "en", "tr"},
        d \in {NONE, "en", "parts_catalog"},
        pg \in {NoPage} \cup {Page(n) : n \in 1..MaxPage}}

InitKey ==
    /\ InitRest
    /\ fn \in {Called("cache_key", [r1 |-> a, r2 |-> b]) : a \in KeyRequests, b \in KeyRequests}

CacheKeys ==
    /\ fn.op = "cache_key" /\ ~fn.done
    /\ fn' = [fn EXCEPT !.done = TRUE,
                        !.ret = [k1 |-> KeyOf(fn.arg.r1), k2 |-> KeyOf(fn.arg.r2)]]
    /\ UNCHANGED <<search_cache, now, last, putlog, call, task, running, report, ya, xvars>>

NextKey == CacheKeys

SpecKey == InitKey /\ [][NextKey]_vars

---------------------------------------------------------------------------
(* build_search_query: src/src/search/query_builder.py *)

\* SEARCH_TERMS_BY_LANG of src/data/categories.py for "en" and "tr", each
\* phrasing as term.split().  The Turkish letters are written without their
\* marks (parca for parça, semasi for şeması).
SEARCH_TERMS_BY_LANG ==
    [en |->
        [parts_catalog |->
            <<<<"parts", "catalog">>,
              <<"parts", "catalogue">>,
              <<"illustrated", "parts", "catalog">>,
              <<"parts", "manual">>,
              <<"spare", "parts", "catalog">>,
              <<"parts", "book">>,
              <<"parts", "breakdown">>,
              <<"exploded", "parts", "diagram">>>>,
         service_manual |->
            <<<<"service", "manual">>,
              <<"workshop", "manual">>,
              <<"repair", "manual">>,
              <<"shop", "manual">>,
              <<"overhaul", "manual">>,
              <<"maintenance", "manual">>,
              <<"technical", "manual">>,
              <<"factory", "service", "manual">>>>,
         electrical_diagram |->
            <<<<"wiring", "diagram">>,
              <<"electrical", "schematic">>,
              <<"wire", "harness", "diagram">>,
              <<"circuit", "diagram">>,
              <<"electrical", "diagram">>,
              <<"electrical", "wiring", "diagram">>>>,
         hydraulic_diagram |->
            <<<<"hydraulic", "schematic">>,
              <<"hydraulic", "diagram">>,
              <<"hydraulic", "circuit", "diagram">>,
              <<"hydraulic", "system", "diagram">>,
              <<"hydraulic", "flow", "diagram">>>>,
         troubleshooting |->
            <<<<"troubleshooting", "guide">>,
              <<"troubleshooting", "manual">>,
              <<"fault", "code", "list">>,
              <<"error", "code", "list">>,
              <<"diagnostic", "manual">>,
              <<"fault", "finding", "guide">>,
              <<"DTC", "codes">>>>],
     tr |->
        [parts_catalog |->
            <<<<"parca", "katalogu">>,
              <<"yedek", "parca", "katalogu">>,
              <<"parca", "kitabi">>,
              <<"eksplozyon", "semasi">>>>,
         service_manual |->
            <<<<"servis", "kilavuzu">>,
              <<"tamir", "kilavuzu">>,
              <<"bakim", "kilavuzu">>,
              <<"atolye", "kilavuzu">>,
              <<"teknik", "kilavuz">>>>,
         electrical_diagram |->
            <<<<"elektrik", "semasi">>,
              <<"kablo", "semasi">>,
              <<"elektrik", "devresi">>,
              <<"tesisat", "semasi">>,
              <<"devre", "semasi">>>>,
         hydraulic_diagram |->
            <<<<"hidrolik", "sema">>,
              <<"hidrolik", "devre", "semasi">>,
              <<"hidrolik", "sistem", "semasi">>>>,
         troubleshooting |->
            <<<<"ariza", "kodu">>,
              <<"hata", "kodu", "listesi">>,
              <<"ariza", "teshis">>,
              <<"sorun", "giderme">>,
              <<"DTC", "kodlari">>>>]]

CATEGORY_CORE_KEYWORDS_BY_LANG ==
    [en |-> [parts_catalog |-> "parts", service_manual |-> "service",
             electrical_diagram |-> "wiring", hydraulic_diagram |-> "hydraulic",
             troubleshooting |-> "fault"],
     tr |-> [parts_catalog |-> "parca", service_manual |-> "servis",
             electrical_diagram |-> "elektrik", hydraulic_diagram |-> "hidrolik",
             troubleshooting |-> "ariza"]]

\* the lower-case words of both tables in the order of Python's string
\* comparison (ç, ı and ş sort after every ASCII letter)
WordOrder ==
    <<"ariza", "atolye", "bakim", "book", "breakdown", "catalog",
      "catalogue", "circuit", "code", "codes", "devre", "devresi",
      "diagnostic", "diagram", "dtc", "eksplozyon", "electrical",
      "elektrik", "error", "exploded", "factory", "fault", "finding",
      "flow", "giderme", "guide", "harness", "hata", "hidrolik",
      "hydraulic", "illustrated", "kablo", "katalogu", "kitabi", "kodlari",
      "kodu", "kilavuz", "kilavuzu", "list", "listesi", "maintenance",
      "manual", "overhaul", "parts", "parca", "repair", "schematic",
      "service", "servis", "shop", "sistem", "sorun", "spare", "system",
      "tamir", "technical", "teknik", "tesisat", "teshis",
      "troubleshooting", "wire", "wiring", "workshop", "yedek", "sema",
      "semasi">>

\* dict.get(key, default)
DictGet(d, key, default) == IF key \in DOMAIN d THEN d[key] ELSE default

\* str.lower() on the words and brands of the model
str_lower(w) ==
    CASE w = "DTC"     -> "dtc"
      [] w = "Hitachi" -> "hitachi"
      [] w = "Yandex"  -> "yandex"
      [] OTHER         -> w

\* str.strip() on the model numbers of the model
str_strip(w) == IF w = " ZX200 " THEN "ZX200" ELSE w

\* sorted(words)
WordIndex(w) == CHOOSE k \in 1..Len(WordOrder) : WordOrder[k] = w

sorted(words) ==
    [i \in 1..Cardinality(words) |->
        CHOOSE w \in words :
            Cardinality({v \in words : WordIndex(v) < WordIndex(w)}) = i - 1]

\* the words left out of the variant words (the Russian ones apart)
StopWords == {"the", "and", "of", "for"}

\* the core keyword kept among the variant words
extract_variant_words_with_core(category, language) ==
    LET lang_terms == DictGet(SEARCH_TERMS_BY_LANG, language, SEARCH_TERMS_BY_LANG["en"])
        terms == DictGet(lang_terms, category, lang_terms["parts_catalog"])
    IN sorted({str_lower(terms[i][j]) : <<i, j>> \in
                  {p \in (1..Len(terms)) \X (1..3) : p[2] <= Len(terms[p[1]])}})

\* _extract_variant_words, lines 55-80
extract_variant_words(category, language) ==
    LET lang_terms == DictGet(SEARCH_TERMS_BY_LANG, language, SEARCH_TERMS_BY_LANG["en"])
        terms == DictGet(lang_terms, category, lang_terms["parts_catalog"])
        lang_core == DictGet(CATEGORY_CORE_KEYWORDS_BY_LANG, language,
                             CATEGORY_CORE_KEYWORDS_BY_LANG["en"])
        core == DictGet(lang_core, category, "parts")
        all_words == {str_lower(terms[i][j]) : <<i, j>> \in
                        {p \in (1..Len(terms)) \X (1..3) : p[2] <= Len(terms[p[1]])}}
    IN sorted({word \in all_words : word # str_lower(core) /\ word \notin StopWords})

\* a term of the query: a quoted text, a bare word, or the file-type filter
\* (kind "filetype" or "mime")
Tok(kind, text) == [kind |-> kind, text |-> text]

\* build_search_query, lines 116-143: the terms, which are joined by " "
build_search_query(brand, model, category, filetype, engine, language) ==
    LET lang_core == DictGet(CATEGORY_CORE_KEYWORDS_BY_LANG, language,
                             CATEGORY_CORE_KEYWORDS_BY_LANG["en"])
        core_keyword == DictGet(lang_core, category, "parts")
        variant_words == extract_variant_words(category, language)
    IN (IF Truthy(brand) THEN <<Tok("quoted", str_lower(brand))>> ELSE <<>>)
         \o (IF Truthy(model) THEN <<Tok("quoted", str_strip(model))>> ELSE <<>>)
         \o <<Tok("quoted", core_keyword)>>
         \o [i \in 1..Len(variant_words) |-> Tok("word", variant_words[i])]
         \o (IF Truthy(filetype)
             THEN IF str_lower(engine) = "yandex"
                  THEN <<Tok("mime", filetype)>>
                  ELSE <<Tok("filetype", filetype)>>
             ELSE <<>>)

QueryCategories ==
    {"parts_catalog", "service_manual", "electrical_diagram", "hydraulic_diagram",
     "troubleshooting", "parts", "service", "electrical", "bogus"}

QueryInputs ==
    {[brand |-> b, model |-> m, category |-> c, filetype |-> f, engine |-> e,
      language |-> l] :
        b \in {NONE, "", "hitachi", "Hitachi"},
        m \in {NONE, "ZX200", " ZX200 "},
        c \in QueryCategories,
        f \in {"pdf", ""},
        e \in {"google", "yandex", "Yandex"},
        l \in {"en", "tr", "de"}}

InitQuery ==
    /\ InitRest
    /\ fn \in {Called("build_search_query", a) : a \in QueryInputs}

BuildQuery ==
    /\ fn.op = "build_search_query" /\ ~fn.done
    /\ fn' = [fn EXCEPT !.done = TRUE,
                        !.ret = build_search_query(fn.arg.brand, fn.arg.model,
                                                   fn.arg.category, fn.arg.filetype,
                                                   fn.arg.engine, fn.arg.language)]
    /\ UNCHANGED <<search_cache, now, last, putlog, call, task, running, report, ya, xvars>>

NextQuery == BuildQuery

SpecQuery == InitQuery /\ [][NextQuery]_vars

---------------------------------------------------------------------------
(* The result filters of the adapters: src/src/brave_client.py lines 142-163,
   src/src/yandex_client.py lines 193-231 *)

MaxItems == 2

\* an item as the backend returns it; pdf: the URL, title or description
\* (for Yandex also the mime type) holds "pdf"
RawItem(u, pdf) == [url |-> u, pdf |-> pdf]

\* brave_client.py lines 142-163: the items of one page that pass the PDF test
brave_page_results(web_results) ==
    LET kept == SelectSeq(web_results, LAMBDA item : item.pdf)
    IN [i \in 1..Len(kept) |-> Result(kept[i].url, "brave")]

\* yandex_client.py lines 197-229: each url_clean once, then the PDF test
RECURSIVE yandex_pdf_results(_, _)
yandex_pdf_results(found, seen_urls) ==
    IF found = <<>> THEN <<>>
    ELSE LET r == Head(found)
             url_clean == Lower(r.url)
         IN IF url_clean \in seen_urls
            THEN yandex_pdf_results(Tail(found), seen_urls)
            ELSE (IF r.pdf THEN <<Result(r.url, "yandex")>> ELSE <<>>)
                   \o yandex_pdf_results(Tail(found), seen_urls \cup {url_clean})

\* results[:count]
Truncated(results, count) == SubSeq(results, 1, IF Len(results) < count THEN Len(results) ELSE count)

\* search_pdfs of an adapter on the items its requests returned
adapter_search_pdfs(adapter, items, count) ==
    IF adapter = "brave"
    THEN Truncated(brave_page_results(items), count)
    ELSE Truncated(yandex_pdf_results(items, {}), count)

FilterUrls == {UA, UAcase, UX}

FilterItems == {RawItem(u, pdf) : u \in FilterUrls, pdf \in BOOLEAN}

FilterInputs ==
    {[adapter |-> a, items |-> items, count |-> count] :
        a \in {"brave", "yandex"}, items \in SeqsUpTo(FilterItems, MaxItems),
        count \in 1..MaxItems}

InitFilter ==
    /\ InitRest
    /\ fn \in {Called("search_pdfs", a) : a \in FilterInputs}

AdapterSearchPdfs ==
    /\ fn.op = "search_pdfs" /\ ~fn.done
    /\ fn' = [fn EXCEPT !.done = TRUE,
                        !.ret = adapter_search_pdfs(fn.arg.adapter, fn.arg.items, fn.arg.count)]
    /\ UNCHANGED <<search_cache, now, last, putlog, call, task, running, report, ya, xvars>>

NextFilter == AdapterSearchPdfs

SpecFilter == InitFilter /\ [][NextFilter]_vars

---------------------------------------------------------------------------
(* The paging loops: src/src/brave_client.py lines 122-171,
   src/src/serper_client.py lines 119-170 *)

\* count=min(20, ...) and offset += 20
BravePageSize == 20

\* while ... and offset < 200
BraveMaxOffset == 200

\* num=10 of the request in SerperClient.search_pdfs
SerperPageSize == 10

\* max_pages = min((num // 10) + 1, 10)
SerperPageCap == 10

Min(a, b) == IF a < b THEN a ELSE b

\* the results asked for: one, and one more than a Brave page
PagerCounts == {1, BravePageSize + 1}

\* a response: an error (HTTP status or exception), or a page of size items
\* of which kept pass the filters of the loop body
PageResp(error, size, kept) == [error |-> error, size |-> size, kept |-> kept]

\* the pages a backend can return to a request for at most limit items
PageResps(limit) ==
    {PageResp(TRUE, 0, 0)}
      \cup {PageResp(FALSE, sk[1], sk[2]) :
               sk \in {p \in {0, 1, limit} \X {0, 1, limit} : p[2] <= p[1]}}

\* search_pdfs is called
PagerCall(adapter, count) ==
    /\ pager.pc = "idle"
    /\ pager' = PagerRec(adapter, count, "loop", 0, IF adapter = "brave" THEN 0 ELSE 1,
                         0, FALSE, 0, 0)
    /\ UNCHANGED <<search_cache, now, last, putlog, call, task, running, report, ya, fn, conn, single, completed>>

\* what the model records about a response
StopSeen(resp, size_limit, collected, count) ==
    resp.error \/ resp.size = 0 \/ resp.size < size_limit \/ collected >= count

\* the requested size of a Brave page: count=min(20, count - len(results))
BraveRequested(p) == Min(BravePageSize, p.count - p.collected)

\* one round of the loop of brave_client.py lines 126-169, and the return of
\* line 171 if the loop ends with it
BravePage(resp) ==
    LET collected == pager.collected + resp.kept
        offset == pager.pos + BravePageSize
        ends == \/ resp.error
                \/ resp.size = 0
                \/ resp.size < BravePageSize
                \/ ~(collected < pager.count /\ offset < BraveMaxOffset)
    IN /\ pager.pc = "loop" /\ pager.adapter = "brave"
       /\ resp \in PageResps(BraveRequested(pager))
       /\ pager' = [pager EXCEPT
                      !.requests = @ + 1,
                      !.extra = IF pager.stop THEN @ + 1 ELSE @,
                      !.stop = @ \/ StopSeen(resp, BravePageSize, collected, pager.count),
                      !.collected = IF resp.error \/ resp.size = 0 THEN @ ELSE collected,
                      !.pos = IF resp.error \/ resp.size = 0 THEN @ ELSE offset,
                      !.pc = IF ends THEN "returned" ELSE "loop",
                      !.ret = IF ends
                              THEN Min(IF resp.error \/ resp.size = 0
                                       THEN pager.collected ELSE collected, pager.count)
                              ELSE @]
       /\ UNCHANGED <<search_cache, now, last, putlog, call, task, running, report, ya, fn, conn, single, completed>>

\* max_pages of serper_client.py line 122
SerperMaxPages(num) == Min((num \div 10) + 1, SerperPageCap)

\* one round of the loop of serper_client.py lines 127-167, and the return of
\* line 170 if the loop ends with it; search() turns an error into an empty
\* organic list (lines 100-106)
SerperPage(resp) ==
    LET empty == resp.error \/ resp.size = 0
        collected == Min(pager.count, pager.collected + resp.kept)
        page == pager.pos + 1
        ends == empty \/ ~(collected < pager.count /\ page <= SerperMaxPages(pager.count))
    IN /\ pager.pc = "loop" /\ pager.adapter = "serper"
       /\ resp \in PageResps(SerperPageSize)
       /\ pager' = [pager EXCEPT
                      !.requests = @ + 1,
                      !.extra = IF pager.stop THEN @ + 1 ELSE @,
                      !.stop = @ \/ StopSeen(resp, SerperPageSize, collected, pager.count),
                      !.collected = IF empty THEN @ ELSE collected,
                      !.pos = IF empty THEN @ ELSE page,
                      !.pc = IF ends THEN "returned" ELSE "loop",
                      !.ret = IF ends THEN (IF empty THEN pager.collected ELSE collected) ELSE @]
       /\ UNCHANGED <<search_cache, now, last, putlog, call, task, running, report, ya, fn, conn, single, completed>>

NextPager ==
    \/ \E adapter \in {"brave", "serper"} : \E count \in PagerCounts : PagerCall(adapter, count)
    \/ \E resp \in PageResps(BravePageSize) \cup PageResps(1) : BravePage(resp)
    \/ \E resp \in PageResps(SerperPageSize) : SerperPage(resp)

SpecPager == InitCache /\ [][NextPager]_vars

---------------------------------------------------------------------------
(* MultiSearchCoordinator.search_site_all_engines: src/src/multi_search.py
   lines 244-315 *)

\* lines 259-271: the tasks created before the loop ends or raises.
\* self.yandex is None if the client could not be constructed, and
\* self.yandex.search_site then raises AttributeError inside the loop.
RECURSIVE create_site_tasks(_, _, _)
create_site_tasks(engines, available, tasks) ==
    IF engines = <<>> THEN [raised |-> FALSE, tasks |-> tasks]
    ELSE LET engine_name == Head(engines)
         IN IF engine_name \in {"serper", "brave"}
            THEN create_site_tasks(Tail(engines), available, Append(tasks, engine_name))
            ELSE IF engine_name = "yandex"
            THEN IF "yandex" \in available
                 THEN create_site_tasks(Tail(engines), available, Append(tasks, engine_name))
                 ELSE [raised |-> TRUE, tasks |-> tasks]
            ELSE create_site_tasks(Tail(engines), available, tasks)

SiteEntry(engine, results, error) ==
    [engine |-> engine, results |-> results, count |-> Len(results), error |-> error]

\* lines 277-295 for one task.  _search_site_serper returns SearchResult
\* objects, so item["engine"] = engine_name of line 287 raises TypeError on
\* the first item; the except branch replaces the entry.
site_entry(engine_name, out) ==
    IF out.kind = "raise" THEN SiteEntry(engine_name, <<>>, "exception")
    ELSE IF engine_name = "serper" /\ out.results # <<>>
    THEN SiteEntry(engine_name, <<>>, "exception")
    ELSE SiteEntry(engine_name, out.results, NONE)

\* the items of lines 286-288, in task order
RECURSIVE site_all_results(_, _)
site_all_results(tasks, outs) ==
    IF tasks = <<>> THEN <<>>
    ELSE LET entry == site_entry(Head(tasks), outs[Head(tasks)])
         IN [i \in 1..Len(entry.results) |->
                [url |-> entry.results[i].url, source |-> entry.results[i].source,
                 engine |-> entry.engine]]
              \o site_all_results(Tail(tasks), outs)

\* search_site_all_engines: raised (an exception left the call), unawaited
\* (tasks created and never awaited), and the dict returned
search_site_all_engines(engines, available, outs) ==
    LET created == create_site_tasks(engines, available, <<>>)
        merged_results == merge_unique(site_all_results(created.tasks, outs), {})
    IN IF created.raised
       THEN [raised |-> TRUE, unawaited |-> created.tasks, engines |-> <<>>,
             merged_results |-> <<>>, total_results |-> 0]
       ELSE [raised |-> FALSE, unawaited |-> <<>>,
             engines |-> [i \in 1..Len(created.tasks) |->
                            site_entry(created.tasks[i], outs[created.tasks[i]])],
             merged_results |-> merged_results,
             total_results |-> Len(merged_results)]

SiteEngineLists ==
    {<<"brave", "yandex">>, <<"yandex", "brave">>, <<"serper", "brave", "yandex">>}

\* what a site search task comes to: a list, or an exception
SiteOutcomes(e) == {Outcome("ok", r) : r \in Found(e)} \cup {Outcome("raise", <<>>)}

SiteInputs ==
    {[engines |-> engines, available |-> available, outs |-> outs] :
        engines \in SiteEngineLists,
        available \in {SelfEngines, SelfEngines \ {"yandex"}},
        outs \in {f \in [SelfEngines -> UNION {SiteOutcomes(e) : e \in SelfEngines}] :
                    \A e \in SelfEngines : f[e] \in SiteOutcomes(e)}}

InitSite ==
    /\ InitRest
    /\ fn \in {Called("search_site_all_engines", a) : a \in SiteInputs}

SearchSiteAll ==
    /\ fn.op = "search_site_all_engines" /\ ~fn.done
    /\ fn' = [fn EXCEPT !.done = TRUE,
                        !.ret = search_site_all_engines(fn.arg.engines, fn.arg.available,
                                                        fn.arg.outs)]
    /\ UNCHANGED <<search_cache, now, last, putlog, call, task, running, report, ya, xvars>>

NextSite == SearchSiteAll

SpecSite == InitSite /\ [][NextSite]_vars

---------------------------------------------------------------------------
(* Claims about the cache store *)

PutUrls(key) == {p[2] : p \in {q \in putlog : q[1] = key}}

\* C1: after any sequence of save_to_cache calls on a key with no eviction in
\* between, the stored list has exactly as many entries as there are distinct
\* (lower-case) URLs in the lists that were put, and holds each of them.
C1_MergeMonotonic ==
    \A row \in search_cache :
        /\ LowerUrls(row.results) = PutUrls(row.cache_key)
        /\ Len(row.results) = Cardinality(PutUrls(row.cache_key))

\* the entry's expiry time has passed
Expired(row, t) == Before(InstantOf(row.expires_at), t)

\* C7: get_cached_results returns None when the key has no row or the row's
\* expiry time has passed (now > expiry), and otherwise the row's whole list.
C7_GetAbsentOrWhole ==
    last.op = "get" =>
        LET key == KeyOf(CacheReq(last.engine))
        IN IF HasRow(search_cache, key) /\ ~Expired(RowOf(search_cache, key), now)
           THEN last.ret = Some(RowOf(search_cache, key).results)
           ELSE last.ret = None

\* position in results of the first result with the lower-case URL u
FirstIndex(results, u) ==
    CHOOSE i \in 1..Len(results) :
        /\ Lower(results[i].url) = u
        /\ \A j \in 1..(i - 1) : Lower(results[j].url) # u

\* C8: save_to_cache on a key that has a row keeps every stored result in
\* place, appends exactly the new results whose lower-case URL the row did not
\* hold (each URL once, its first arrival, in arrival order), sets result_count
\* to the new length, refreshes updated_at and expires_at, and leaves
\* created_at, the key fields and every other row as they were.
C8_MergeKeepsAndAppends ==
    \A req \in CacheReqs : \A results \in PutLists(req) :
        HasRow(search_cache, KeyOf(req)) =>
            LET old == RowOf(search_cache, KeyOf(req))
                rows == save_to_cache(search_cache, req, results, now)
                new == RowOf(rows, KeyOf(req))
                n == Len(old.results)
                app == SubSeq(new.results, n + 1, Len(new.results))
                fresh == LowerUrls(results) \ LowerUrls(old.results)
                at(j) == FirstIndex(results, Lower(app[j].url))
            IN /\ Cardinality({r \in rows : r.cache_key = KeyOf(req)}) = 1
               /\ rows \ {new} = search_cache \ {old}
               /\ Len(new.results) >= n
               /\ SubSeq(new.results, 1, n) = old.results
               /\ LowerUrls(app) = fresh
               /\ Len(app) = Cardinality(fresh)
               /\ \A j \in 1..Len(app) : app[j] = results[at(j)]
               /\ \A j \in 1..Len(app) : \A k \in 1..Len(app) : j < k => at(j) < at(k)
               /\ new.result_count = Len(new.results)
               /\ new.updated_at = [day |-> now.day, sep |-> " ", sec |-> now.sec]
               /\ InstantOf(new.expires_at) = Instant(now.day + CACHE_EXPIRY_DAYS, now.sec)
               /\ new.created_at = old.created_at
               /\ new.cache_key = old.cache_key
               /\ new.engine = old.engine
               /\ new.query = old.query
               /\ new.language = old.language
               /\ new.doc_type = old.doc_type

\* a row that was merged into: updated after it was created and longer than
\* any one list that was put, the last call being a save on its key
C8_Witness ==
    /\ last.op = "save"
    /\ \E row \in search_cache :
          /\ row.engine = last.engine
          /\ TextLess(row.created_at, row.updated_at)
          /\ Len(row.results) > MaxPut
          /\ Cardinality(LowerUrls(row.results)) < Len(row.results)


---------------------------------------------------------------------------
(* Claims about search_all_engines *)

Returned == call.phase = "returned"

\* C2: when the backends of a call return URLs that differ only by protocol,
\* a leading www., a trailing slash or letter case, merged_results of the
\* returned report holds exactly one entry for that URL.
C2_OneEntryPerNormalizedUrl ==
    Returned =>
        \A i \in 1..Len(report.merged_results) : \A j \in 1..Len(report.merged_results) :
            normalize_url(report.merged_results[i].url) = normalize_url(report.merged_results[j].url)
                => i = j

\* the entry of engine e in the returned report
Entry(e) == CHOOSE r \in Range(report.engines) : r.engine = e

Untagged(items) == [i \in 1..Len(items) |-> Result(items[i].url, items[i].source)]

\* the call had exactly the backends a and b; the adapter of a raised and b
\* came back with 3 results
RaisedAndThree(a, b) ==
    /\ Returned
    /\ Range(CallTasks) = {a, b} /\ a # b
    /\ task[a].live /\ task[a].out.kind = "raise"
    /\ task[b].ret.count = 3 /\ task[b].ret.error = NONE

\* C3: if the adapter call of one backend raises and the other backend returns
\* 3 results, search_all_engines returns a report whose merged_results are
\* exactly those 3 results, in which the failing backend's entry has an error
\* and count 0 and the other backend's entry has no error.
C3_PartialFailureTolerated ==
    \A a \in SelfEngines : \A b \in SelfEngines :
        RaisedAndThree(a, b) =>
            /\ Untagged(report.merged_results) = task[b].ret.results
            /\ \A i \in 1..3 : report.merged_results[i].engine = b
            /\ report.total_results = 3
            /\ Len(report.engines) = 2
            /\ Entry(a).error # NONE /\ Entry(a).count = 0 /\ Entry(a).results = <<>>
            /\ Entry(b).error = NONE /\ Entry(b).count = 3

C3_Witness ==
    /\ RaisedAndThree("yandex", "brave")
    /\ task["brave"].live
    /\ Len(report.merged_results) = 3

\* C4: whenever a backend's call failed (HTTP or transport error, credential
\* acquisition failure, poll ceiling exhausted, or an exception), its entry in
\* the returned report carries an error and an empty result list; if every
\* backend failed, merged_results is empty.
C4_FailureVisibleAsError ==
    Returned =>
        /\ \A e \in Range(CallTasks) :
              (task[e].live /\ (Failed(task[e].out) \/ task[e].out.kind = "raise"))
                  => (Entry(e).error # NONE /\ Entry(e).results = <<>>)
        /\ (\A e \in Range(CallTasks) :
               task[e].live /\ (Failed(task[e].out) \/ task[e].out.kind = "raise"))
              => report.merged_results = <<>>

\* the cache holds an entry for the key of e whose expiry instant is not past
Usable(e) ==
    /\ HasRow(search_cache, KeyOf(CacheReq(e)))
    /\ ~Expired(RowOf(search_cache, KeyOf(CacheReq(e))), now)

\* C5: with caching enabled, a backend task that starts while the cache holds a
\* usable entry for its key finishes at once with cached = true, no error and
\* the cached list as results, and no adapter call is made for that backend
\* for the rest of the call.
C5_CacheHitSkipsBackend ==
    [][\A e \in SelfEngines :
          /\ (task[e].pc = "ready" /\ task'[e].pc # "ready"
                /\ self_use_cache /\ call.use_cache /\ Usable(e))
               => /\ task'[e].pc = "done"
                  /\ task'[e].ret.cached = TRUE
                  /\ task'[e].ret.error = NONE
                  /\ task'[e].ret.results = RowOf(search_cache, KeyOf(CacheReq(e))).results
                  /\ task'[e].live = FALSE
                  /\ search_cache' = search_cache
          /\ (task[e].ret.cached /\ call'.n = call.n)
               => (task'[e] = task[e] /\ ~task[e].live)]_vars

C5_Witness ==
    /\ Returned
    /\ task["brave"].ret.cached /\ task["brave"].ret.count >= 2
    /\ ~task["brave"].live
    /\ task["yandex"].live

\* the lower-case URLs a cache get for the key of e returns now
CachedNow(e) ==
    LET got == get_cached_results(search_cache, CacheReq(e), now)
    IN IF got = None THEN {} ELSE LowerUrls(got.val)

\* C6: when search_all_engines has returned, every backend whose live fetch
\* succeeded in the call has its results in the cache entry of its key: a
\* cache get for the key returns a list with every URL of the fetch.
C6_WrittenBeforeReturn ==
    Returned =>
        \A e \in Range(CallTasks) :
            (task[e].live /\ task[e].out.kind = "ok")
                => LowerUrls(task[e].ret.results) \subseteq CachedNow(e)

C6_Witness ==
    /\ Returned
    /\ task["brave"].live /\ task["brave"].out.kind = "ok"
    /\ task["brave"].ret.count = 2
    /\ Len(RowOf(search_cache, KeyOf(CacheReq("brave"))).results) = 3

\* C9: while the polling backend is inside its submit/poll loop, every sibling
\* task of the call that is ready to start or to resume can be run by the
\* event loop.
C9_PollingLeavesLoopFree ==
    \A e \in SelfEngines : \A s \in SelfEngines :
        (task[e].pc = "blocking" /\ s # e /\ task[s].pc \in {"ready", "resumable"})
            => running = NONE


---------------------------------------------------------------------------
(* Claims about YandexSearchClient.search *)

C10_Step ==
    /\ ya.state = "IDLE" => ya'.state \in {"IDLE", "SUBMITTING"}
    /\ ya.state = "SUBMITTING" =>
          /\ ya'.state \in {"SUBMITTING", "PENDING", "FAILED"}
          /\ ya'.submit # "none" =>
                ya'.state = (IF ya'.submit = "200_id" THEN "PENDING" ELSE "FAILED")
          /\ ya'.polls = 0
    /\ ya.state = "PENDING" =>
          /\ ya'.state \in {"PENDING", "DONE", "FAILED", "TIMED_OUT"}
          /\ ya'.polls = ya.polls + 1 =>
                ya'.state = (CASE ya'.poll = "not_done" -> "PENDING"
                               [] ya'.poll = "done"     -> "DONE"
                               [] ya'.poll = "error"    -> "FAILED")
          /\ ya'.polls = ya.polls => ya'.state \in {"PENDING", "TIMED_OUT"}
    /\ (ya.state \in Terminal /\ ya'.calls = ya.calls) =>
          (ya'.state = ya.state /\ ya'.sent = ya.sent /\ ya'.polls = ya.polls)

C10_Inv ==
    /\ ya.state \in {"IDLE", "SUBMITTING", "PENDING"} \cup Terminal
    /\ ya.state = "PENDING" => ya.submit = "200_id"
    /\ ya.polls <= 30
    /\ ya.polls > 0 => ya.submit = "200_id"
    /\ (ya.state = "TIMED_OUT") <=> (ya.state \in Terminal /\ ya.notdone = 30)

C11_CredentialNotExpired ==
    ya.req.kind \in {"submit", "poll"} => ya.req.expires > ya.req.at

\* the kept credential is more than 60 seconds from its expiry
KeptFresh == ya.token # 0 /\ ya.clock < ya.expires - 60

C12_Step ==
    /\ (ya.state = "SUBMITTING" /\ ya.pc = "token" /\ ya' # ya) =>
          /\ KeptFresh =>
                /\ ya'.token = ya.token /\ ya'.expires = ya.expires
                /\ ya'.cred = ya.expires /\ ya'.pc = "post"
                /\ ya'.iam = ya.iam /\ ya'.sent = ya.sent
          /\ ~KeptFresh => ya'.iam = ya.iam + 1
          /\ ya'.token # ya.token =>
                (~KeptFresh /\ ya'.expires = ya.clock + 3600 /\ ya'.cred = ya'.expires)
          /\ ya'.token = ya.token => ya'.expires = ya.expires
    /\ ~(ya.state = "SUBMITTING" /\ ya.pc = "token") =>
          (ya'.token = ya.token /\ ya'.expires = ya.expires /\ ya'.iam = ya.iam)

\* C12: _get_iam_token signs and exchanges only when no credential is kept or
\* now >= kept expiry - 60; a call made while now < kept expiry - 60 returns
\* the kept credential without a request; after a successful renewal the kept
\* expiry is now + 3600.
C12_CredentialReuse == [][C12_Step]_vars

C12_Witness ==
    /\ ya.calls = 2 /\ ya.token = 1 /\ ya.iam = 1
    /\ ya.pc = "post" /\ ya.cred = ya.expires
    /\ ya.clock = ya.expires - 61


---------------------------------------------------------------------------
(* Claims about MultiEngineAggregator.search_all_engines *)

AggReturned == fn.op = "search_all_engines" /\ fn.done

\* two URLs are the same once protocol, www., trailing slash,
\* percent-encoding and letter case are removed
SameDocument(u, v) == u.site = v.site

\* every hit of every gathered engine, in merge order, with its engine
RECURSIVE MergeOrder(_, _, _)
MergeOrder(names, clients, results) ==
    IF names = <<>> THEN <<>>
    ELSE LET e == Head(names)
             hits == IF e \in clients /\ ~results[e].exc THEN results[e].hits ELSE <<>>
         IN [i \in 1..Len(hits) |-> [hit |-> hits[i], engine |-> e]]
              \o MergeOrder(Tail(names), clients, results)

FirstOf(order, u) ==
    order[CHOOSE k \in 1..Len(order) :
            /\ SameDocument(order[k].hit.url, u)
            /\ \A j \in 1..(k - 1) : ~SameDocument(order[j].hit.url, u)]

\* C13: the merged list before truncation holds at most one record per
\* normalized URL, and that record is the first hit of the URL in merge order
\* with its URL and title as they came; nothing of a later duplicate is in it.
C13_FirstContributorWins ==
    AggReturned =>
        LET out == fn.ret.merged
            order == MergeOrder(fn.arg.engines, fn.arg.clients, fn.arg.results)
        IN /\ \A i \in 1..Len(out) : \A j \in 1..Len(out) :
                 SameDocument(out[i].url, out[j].url) => i = j
           /\ \A i \in 1..Len(out) :
                 /\ \E k \in 1..Len(order) : SameDocument(order[k].hit.url, out[i].url)
                 /\ out[i].url = FirstOf(order, out[i].url).hit.url
                 /\ out[i].title = FirstOf(order, out[i].url).hit.title
                 /\ out[i].source = FirstOf(order, out[i].url).engine

C13_Witness ==
    /\ AggReturned
    /\ fn.arg.results.google = Got(<<Hit(UAall, "t1", "google"), Hit(UB, "t1", "google")>>)
    /\ fn.arg.results.brave = Got(<<Hit(Encoded(UA), "t2", "brave"), Hit(UB, "t2", "brave")>>)
    /\ fn.arg.results.yandex = Got(<<Hit(UA, "t3", "yandex")>>)
    /\ fn.arg.clients = {"google", "brave", "yandex"}
    /\ Len(fn.ret.merged) = 2
    /\ fn.ret.merged[1].title = "t1" /\ fn.ret.merged[2].title = "t1"


---------------------------------------------------------------------------
(* Claims about the ranking of multi_engine_search *)

\* C14: in the final ranked list every result with brand_match = true comes
\* before every result with brand_match = false.
C14_BrandMatchFirst ==
    (fn.op = "rank" /\ fn.done) =>
        \A i \in 1..Len(fn.ret) : \A j \in 1..Len(fn.ret) :
            (fn.ret[i].brand_match /\ ~fn.ret[j].brand_match) => i < j


---------------------------------------------------------------------------
(* Claims about cache keys *)

\* C15: two requests have the same cache key only if they agree on backend,
\* lower-cased and trimmed query, language, category and page.
C15_KeyIdentifiesTuple ==
    (fn.op = "cache_key" /\ fn.done /\ fn.ret.k1 = fn.ret.k2) =>
        /\ fn.arg.r1.engine = fn.arg.r2.engine
        /\ LowerStrip(fn.arg.r1.query) = LowerStrip(fn.arg.r2.query)
        /\ fn.arg.r1.language = fn.arg.r2.language
        /\ fn.arg.r1.doc_type = fn.arg.r2.doc_type
        /\ fn.arg.r1.page = fn.arg.r2.page


---------------------------------------------------------------------------
(* Claims about the report of search_all_engines *)

\* C16: the returned report holds an entry for every backend of the call
\* (the backends the caller named or, by default, the enabled ones).
C16_EntryForEveryBackend ==
    Returned =>
        \A e \in Range(call.engines) : \E r \in Range(report.engines) : r.engine = e


---------------------------------------------------------------------------
(* Claims about build_search_query *)

QueryBuilt == fn.op = "build_search_query" /\ fn.done

\* the core keyword of a (language, category) pair; pairs outside the tables
\* get the keyword the lookup falls back to
CoreKeyword(language, category) ==
    LET l == IF language \in DOMAIN CATEGORY_CORE_KEYWORDS_BY_LANG THEN language ELSE "en"
    IN IF category \in DOMAIN CATEGORY_CORE_KEYWORDS_BY_LANG[l]
       THEN CATEGORY_CORE_KEYWORDS_BY_LANG[l][category] ELSE "parts"

\* every word of every phrasing of the category in the language
PhrasingWords(language, category) ==
    LET l == IF language \in DOMAIN SEARCH_TERMS_BY_LANG THEN language ELSE "en"
        c == IF category \in DOMAIN SEARCH_TERMS_BY_LANG[l] THEN category ELSE "parts_catalog"
        terms == SEARCH_TERMS_BY_LANG[l][c]
    IN UNION {{str_lower(terms[i][j]) : j \in 1..Len(terms[i])} : i \in 1..Len(terms)}

Present(x) == x # NONE /\ x # ""

C17_Shape(a, q) ==
    LET nb == IF Present(a.brand) THEN 1 ELSE 0
        nm == IF Present(a.model) THEN 1 ELSE 0
        nf == IF Present(a.filetype) THEN 1 ELSE 0
        core == CoreKeyword(a.language, a.category)
        words == {q[i].text : i \in {k \in 1..Len(q) : q[k].kind = "word"}}
        expected == (PhrasingWords(a.language, a.category) \ {core}) \ StopWords
    IN /\ Present(a.brand) => q[1] = Tok("quoted", str_lower(a.brand))
       /\ Present(a.model) => q[nb + 1] = Tok("quoted", str_strip(a.model))
       /\ q[nb + nm + 1] = Tok("quoted", core)
       /\ \A i \in 1..Len(q) : q[i].kind = "quoted" <=> i <= nb + nm + 1
       /\ \A i \in 1..Len(q) : q[i].kind = "word" <=> (nb + nm + 1 < i /\ i <= Len(q) - nf)
       /\ words = expected
       /\ Len(q) = nb + nm + 1 + Cardinality(expected) + nf
       /\ core \notin words
       /\ Present(a.filetype) =>
             q[Len(q)] = (IF a.engine \in {"yandex", "Yandex"}
                          THEN Tok("mime", a.filetype) ELSE Tok("filetype", a.filetype))

Resolved(category) ==
    CASE category = "parts"      -> "parts_catalog"
      [] category = "service"    -> "service_manual"
      [] category = "electrical" -> "electrical_diagram"
      [] category \in DOMAIN SEARCH_TERMS_BY_LANG["en"] -> category
      [] OTHER -> "parts_catalog"

\* C18: for every category identifier and language the query is the one
\* produced for the canonical category the identifier resolves to (a legacy
\* alias to its category, any other unknown identifier to parts_catalog).
C18_CategoryResolved ==
    QueryBuilt =>
        fn.ret = build_search_query(fn.arg.brand, fn.arg.model, Resolved(fn.arg.category),
                                    fn.arg.filetype, fn.arg.engine, fn.arg.language)

DocExampleEn ==
    <<Tok("quoted", "hitachi"), Tok("quoted", "parts"), Tok("word", "catalog"),
      Tok("word", "catalogue"), Tok("word", "manual"), Tok("word", "book"),
      Tok("word", "breakdown"), Tok("filetype", "pdf")>>

DocExampleTr ==
    <<Tok("quoted", "hitachi"), Tok("quoted", "parca"), Tok("word", "katalogu"),
      Tok("word", "kitabi"), Tok("word", "eksplozyon"), Tok("filetype", "pdf")>>

\* C20: build_search_query("hitachi", None, "parts_catalog", language="en")
\* and the same call with language="tr" return the strings of the docstring.
C20_DocstringExamples ==
    (/\ QueryBuilt
     /\ fn.arg.brand = "hitachi" /\ fn.arg.model = NONE
     /\ fn.arg.category = "parts_catalog"
     /\ fn.arg.filetype = "pdf" /\ fn.arg.engine = "google")
        => /\ fn.arg.language = "en" => fn.ret = DocExampleEn
           /\ fn.arg.language = "tr" => fn.ret = DocExampleTr


---------------------------------------------------------------------------
(* Claims about eviction *)

Clears == {"clear_all", "clear_engine", "clear_expired"}

C19_Step ==
    /\ last'.op = "clear_all" =>
          /\ search_cache' = {}
          /\ last'.count = Cardinality(search_cache)
    /\ last'.op = "clear_engine" =>
          /\ search_cache' = {r \in search_cache : r.engine # last'.engine}
          /\ last'.count = Cardinality({r \in search_cache : r.engine = last'.engine})
    /\ last'.op = "clear_expired" =>
          /\ search_cache' \subseteq search_cache
          /\ \A r \in search_cache \ search_cache' : Expired(r, now)
          /\ \A r \in search_cache : ~Expired(r, now) => r \in search_cache'
          /\ last'.count = Cardinality(search_cache \ search_cache')
    /\ (last'.op \in Clears /\ search_cache = {}) => last'.count = 0
    /\ (last'.op \in Clears /\ last.op = last'.op /\ last.engine = last'.engine)
          => last'.count = 0

\* C19: clear_all_cache removes every entry, clear_engine_cache(e) exactly the
\* entries of backend e, clear_expired_cache only expired entries and no live
\* one; each returns the number of entries removed, and returns 0 on an empty
\* cache and when repeated at once.
C19_EvictionCounts == [][C19_Step]_vars

C19_Witness ==
    /\ last.op = "clear_expired" /\ last.count = 1
    /\ Cardinality(search_cache) = 1
    /\ \A r \in search_cache : ~Expired(r, now)

---------------------------------------------------------------------------
(* Concurrent save_to_cache calls on one key *)

\* C21: when save_to_cache calls on the same key interleave, the stored URL
\* set still holds the URLs of every finished call: no call's new URLs are
\* lost.
C21_ConcurrentUnion ==
    \A c \in Conns :
        conn[c].pc = "done" =>
            /\ HasRow(search_cache, KeyOf(conn[c].req))
            /\ LowerUrls(conn[c].results)
                  \subseteq LowerUrls(RowOf(search_cache, KeyOf(conn[c].req)).results)

---------------------------------------------------------------------------
(* Expiry and later saves *)

\* C22: once a row's expiry has passed, its old results are not made visible
\* again by a later save_to_cache on the key: the list get_cached_results
\* returns after such a save never holds the expired row's results followed
\* by results put after the expiry.
C22_Step ==
    \A req \in CacheReqs :
        LET key == KeyOf(req)
            old == RowOf(search_cache, key)
            got == get_cached_results(search_cache', req, now')
        IN (/\ HasRow(search_cache, key)
            /\ HasRow(search_cache', key)
            /\ RowOf(search_cache', key) # old
            /\ Expired(old, now)
            /\ old.results # <<>>)
           => ~(/\ got.some
                /\ Len(got.val) > Len(old.results)
                /\ SubSeq(got.val, 1, Len(old.results)) = old.results)

C22_NoPartiallyExpiredMerge == [][C22_Step]_vars

---------------------------------------------------------------------------
(* Cache failures inside a search *)

\* C23: a failing cache read or cache write never fails a search: no
\* exception leaves search_single_engine, and every backend of the call has
\* its contribution in the report.
C23_CacheFailureTolerated ==
    /\ \A e \in SelfEngines : task[e].pc # "raised"
    /\ call.phase = "returned" =>
          \A e \in Range(CallTasks) :
              \E i \in 1..Len(report.engines) : report.engines[i].engine = e

---------------------------------------------------------------------------
(* The time a call can take *)

\* C24: search_all_engines is bounded by a deadline of its own: also when a
\* backend never responds, the call returns (with that backend reported as an
\* error and the other backends' results).
C24_ReturnsByDeadline == (call.phase = "gathering") ~> (call.phase = "returned")

---------------------------------------------------------------------------
(* What the adapters hand on *)

\* C25: no result returned by an adapter's search_pdfs has a URL that matches
\* the exclusion list.
C25_AdaptersExclude ==
    (fn.op = "search_pdfs" /\ fn.done) =>
        \A i \in 1..Len(fn.ret) : ~is_excluded_domain(fn.ret[i].url)

---------------------------------------------------------------------------
(* The paging loop of search_pdfs *)

\* the most requests one call makes: the pages up to Brave's offset limit
PagerRequestBound == BraveMaxOffset \div BravePageSize

\* C26: search_pdfs of a synchronous adapter requests page after page and
\* stops at the first response that is an error, empty or short of the page
\* size, or that brings the list up to count: it sends no request after such
\* a response, makes a bounded number of requests and returns at most count
\* results.
C26_PagingStops ==
    /\ pager.extra = 0
    /\ pager.requests <= PagerRequestBound
    /\ pager.pc = "returned" => pager.ret <= pager.count

---------------------------------------------------------------------------
(* The site-scoped fan-out *)

\* C27: search_site_all_engines never raises because of one backend: with a
\* requested backend unavailable or failing, the call returns, no created
\* task is left unawaited, and that backend's report entry records the
\* failure.
C27_SiteSearchNeverRaises ==
    (fn.op = "search_site_all_engines" /\ fn.done) =>
        /\ ~fn.ret.raised
        /\ fn.ret.unawaited = <<>>
        /\ \A e \in Range(fn.arg.engines) :
              (e \notin fn.arg.available \/ fn.arg.outs[e].kind = "raise") =>
                  \E i \in 1..Len(fn.ret.engines) :
                      fn.ret.engines[i].engine = e /\ fn.ret.engines[i].error # NONE

---------------------------------------------------------------------------
(* What search_single_engine does to the cache *)

RowsOf(rows, e) == {r \in rows : r.cache_key = KeyOf(CacheReq(e))}

\* the task of backend e ends in this step
Ends(e) == task[e].pc # "done" /\ task'[e].pc = "done"

\* C28: a search_single_engine call changes the row of its own key only if
\* it fetched live and got at least one result without an exception; a cache
\* hit, an adapter exception and an empty list leave the whole cache as it
\* was; the row of another key is never changed.
C28_Step ==
    /\ \A e \in SelfEngines :
          RowsOf(search_cache', e) # RowsOf(search_cache, e) =>
              /\ Ends(e)
              /\ ~task'[e].ret.cached
              /\ task'[e].live
              /\ task'[e].out.kind # "raise"
              /\ task'[e].ret.error = NONE
              /\ task'[e].ret.results # <<>>
              /\ \A o \in SelfEngines \ {e} : RowsOf(search_cache', o) = RowsOf(search_cache, o)
    /\ \A e \in SelfEngines :
          (/\ Ends(e)
           /\ \/ task'[e].ret.cached
              \/ task'[e].out.kind = "raise"
              \/ task'[e].ret.results = <<>>)
          => search_cache' = search_cache

C28_CacheFrame == [][C28_Step]_vars

\* a call in which one backend raised and left no row while the other
\* fetched live into a row that was there, beside the row of a third key
C28_Witness ==
    \E e \in SelfEngines : \E o \in SelfEngines \ {e} :
        /\ call.phase = "returned" /\ call.n = MaxCalls
        /\ task[e].pc = "done" /\ task[e].out.kind = "raise"
        /\ RowsOf(search_cache, e) = {}
        /\ task[o].pc = "done" /\ task[o].live /\ task[o].ret.results # <<>>
        /\ \E r \in RowsOf(search_cache, o) : r.updated_at # r.created_at
        /\ \E x \in SelfEngines \ {e, o} : RowsOf(search_cache, x) # {}

---------------------------------------------------------------------------
(* use_cache=False *)

\* the rows of the overlapping calls' key
OverlapRows(rows) == {r \in rows : r.cache_key = KeyOf(CacheReq(OverlapEngine))}

\* call i returns in this step
Returns(i) == single[i].pc # "done" /\ single'[i].pc = "done"

\* an unexpired entry of the key exists and gets more results in this step
Grows ==
    \E r \in OverlapRows(search_cache) : \E q \in OverlapRows(search_cache') :
        ~Expired(r, now) /\ Len(q.results) > Len(r.results)

\* a call with use_cache=False does not return cached results, and its
\* non-empty successful fetch is in the entry of its key when it returns
C29_ReadSideOnly ==
    \A i \in Singles :
        (Returns(i) /\ ~single'[i].use_cache) =>
            /\ ~single'[i].ret.cached
            /\ (single'[i].ret.results # <<>> /\ single'[i].ret.error = NONE) =>
                  \E q \in OverlapRows(search_cache') :
                      LowerUrls(single'[i].ret.results) \subseteq LowerUrls(q.results)

\* C29 as stated: use_cache=False bypasses only the read side, and while an
\* unexpired entry exists only calls with use_cache=False add results to it.
C29_OnlyBypassGrows_Step ==
    /\ C29_ReadSideOnly
    /\ Grows => \E i \in Singles : Returns(i) /\ ~single'[i].use_cache

C29_OnlyBypassGrows == [][C29_OnlyBypassGrows_Step]_vars

\* the call began while an unexpired entry of its key existed
BeganUnexpired(i) == \E r \in single'[i].entry : ~Expired(r, single'[i].began)

\* C29 amended: use_cache=False bypasses only the read side, and a call with
\* use_cache=True whose cache read finds an unexpired entry returns it
\* (cached) and leaves the cache as it was; an unexpired entry gets more
\* results only from a call with use_cache=False or from a call that began
\* when no unexpired entry existed.
C29_Step ==
    /\ C29_ReadSideOnly
    /\ \A i \in Singles :
          (Returns(i) /\ single'[i].use_cache /\ BeganUnexpired(i)) =>
              /\ single'[i].ret.cached
              /\ search_cache' = search_cache
    /\ Grows => \E i \in Singles :
                    Returns(i) /\ (~single'[i].use_cache \/ ~BeganUnexpired(i))

C29_BypassReadSide == [][C29_Step]_vars

\* a call with use_cache=False began while an unexpired entry of its key
\* existed, fetched from the backend and left the entry with more results than
\* it had; then a call with use_cache=True returned the grown entry as cached
C29_Witness ==
    \E i \in Singles : \E j \in Singles \ {i} :
        /\ single[j].pc = "done" /\ ~single[j].use_cache /\ ~single[j].ret.cached
        /\ single[j].ret.results # <<>>
        /\ \E r \in single[j].entry : \E q \in OverlapRows(search_cache) :
              /\ ~Expired(r, single[j].began)
              /\ Len(q.results) > Len(r.results)
              /\ LowerUrls(single[j].ret.results) \subseteq LowerUrls(q.results)
              /\ single[i].pc = "done" /\ single[i].use_cache /\ single[i].ret.cached
              /\ single[i].ret.results = q.results

---------------------------------------------------------------------------
(* The merge and the order the tasks end in *)

\* the position of backend e in the engines argument of the call
ListedAt(e) == CHOOSE i \in 1..Len(call.engines) : call.engines[i] = e

\* the backends whose task returned a result
Contributors == {e \in Range(call.engines) : e \in call.available /\ task[e].pc = "done"}

\* item k of backend e's list is the first of its lower-case URL among the
\* lists taken in the order of the engines argument
FirstListed(e, k) ==
    /\ \A j \in 1..(k - 1) : Lower(task[e].ret.results[j].url) # Lower(task[e].ret.results[k].url)
    /\ \A o \in Contributors : ListedAt(o) < ListedAt(e) =>
          \A j \in 1..Len(task[o].ret.results) :
              Lower(task[o].ret.results[j].url) # Lower(task[e].ret.results[k].url)

\* where merged item m comes from: its backend and its place in that list
Origin(m) ==
    {<<e, k>> \in Contributors \X (1..MaxResults) :
        /\ k <= Len(task[e].ret.results)
        /\ m.engine = e
        /\ m.url = task[e].ret.results[k].url
        /\ m.source = task[e].ret.results[k].source
        /\ FirstListed(e, k)}

\* C30: merged_results of a returned search_all_engines call is determined by
\* the engines argument and the backends' result lists, whatever order the
\* tasks ended in: each item is the first-listed record of its URL (the
\* backend named earliest in the engines argument wins a duplicate), every
\* first-listed record is there once, and the items follow the order of the
\* engines argument and, within a backend, the order of its list.
C30_MergeInListedOrder ==
    call.phase = "returned" =>
        LET merged == report.merged_results
        IN /\ \A i \in 1..Len(merged) : Origin(merged[i]) # {}
           /\ \A e \in Contributors : \A k \in 1..Len(task[e].ret.results) :
                 FirstListed(e, k) =>
                     Cardinality({i \in 1..Len(merged) : <<e, k>> \in Origin(merged[i])}) = 1
           /\ \A i \in 1..Len(merged) : \A j \in (i + 1)..Len(merged) :
                 /\ Lower(merged[i].url) # Lower(merged[j].url)
                 /\ \A a \in Origin(merged[i]) : \A c \in Origin(merged[j]) :
                       \/ ListedAt(a[1]) < ListedAt(c[1])
                       \/ a[1] = c[1] /\ a[2] < c[2]

\* both backends were asked over the network, the one named second ended
\* first, both returned the same URL, and the merged list holds the record of
\* the one named first
C30_Witness ==
    /\ call.phase = "returned"
    /\ Len(call.engines) = 2
    /\ completed = <<call.engines[2], call.engines[1]>>
    /\ \A e \in Range(call.engines) : task[e].pc = "done" /\ task[e].live
    /\ \E i \in 1..Len(task[call.engines[1]].ret.results) :
       \E j \in 1..Len(task[call.engines[2]].ret.results) :
       \E m \in 1..Len(report.merged_results) :
          /\ Lower(task[call.engines[1]].ret.results[i].url)
                = Lower(task[call.engines[2]].ret.results[j].url)
          /\ task[call.engines[1]].ret.results[i].url
                # task[call.engines[2]].ret.results[j].url
          /\ report.merged_results[m].url = task[call.engines[1]].ret.results[i].url
          /\ report.merged_results[m].engine = call.engines[1]

====
